---- MODULE Spec2Model ----
(***************************************************************************)
(* Model of vertexai/preview/_workflow/shared/model_utils.py: register and *)
(* from_pretrained, the three framework-specific registration routines,    *)
(* and the collaborators they call (artifact store, Model Registry,        *)
(* CustomJob service, Model Garden).                                       *)
(*                                                                         *)
(* Text that the code inspects character by character (module paths,       *)
(* container image URIs, label values) is a sequence of one-character      *)
(* strings.  A storage path is a sequence of "/"-separated segments; a     *)
(* last segment "" is a trailing "/".  Optional[x] is <<>> (None) or <<x>>.*)
(***************************************************************************)
EXTENDS Integers, Sequences, FiniteSets, TLC

\* Calls to register / from_pretrained made in one run.
MaxCalls == 2

VARIABLES
    config,     \* vertexai.preview.global_config
    wrapped,    \* model object -> its methods are wrapped for remote execution
    store,      \* artifact store: path -> serialized content
    registry,   \* Model Registry: resource id -> model resource, for the
                \* resources uploaded in this run
    job,        \* the CustomJob resource of the environment
    proc,       \* caller -> the call it is executing, with its locals
    callers,    \* the threads that call into the module
    ncalls,     \* calls started so far
    uniq,       \* source of utils.timestamped_unique_name()
    ledger,     \* history: resource id -> what the register call that made it did
    schedule,   \* a PipelineJobSchedule and aiplatform's global_config.network
    client,     \* a SpecialistPoolServiceClient, its environment and its calls
    serving     \* endpoints and a deployment resource pool of the service

\* The state of the modules other than model_utils.
other_modules == <<schedule, client, serving>>

vars == <<config, wrapped, store, registry, job, proc, callers, ncalls, uniq,
          ledger, schedule, client, serving>>

(***************************************************************************)
(* Text                                                                    *)
(***************************************************************************)
S_sklearn == <<"s","k","l","e","a","r","n">>
S_keras == <<"k","e","r","a","s">>
S_torch == <<"t","o","r","c","h">>
S_tf == <<"t","f">>
S_tf2 == <<"t","f","2">>
S_pytorch == <<"p","y","t","o","r","c","h">>
S_tensorflow == <<"t","e","n","s","o","r","f","l","o","w">>
S_true == <<"t","r","u","e">>
S_cpu == <<"c","p","u">>
S_gpu == <<"g","p","u">>
S_1_0 == <<"1",".","0">>
S_2_11 == <<"2",".","1","1">>
S_1_12 == <<"1",".","1","2">>

LowerCase == {"a","b","c","d","e","f","g","h","i","j","k","l","m",
              "n","o","p","q","r","s","t","u","v","w","x","y","z"}
Digit == {"0","1","2","3","4","5","6","7","8","9"}

\* s.startswith(prefix)
StartsWith(s, prefix) ==
    /\ Len(s) >= Len(prefix)
    /\ SubSeq(s, 1, Len(prefix)) = prefix

\* sub in s
Contains(s, sub) ==
    \E i \in 1..(Len(s) - Len(sub) + 1) : SubSeq(s, i, i + Len(sub) - 1) = sub

\* s.replace(a, b) for one-character a and b
Replace(s, a, b) == [i \in 1..Len(s) |-> IF s[i] = a THEN b ELSE s[i]]

None == <<>>
Some(x) == <<x>>

\* Python truth of an Optional[str]: None and "" are false.
Truthy(opt) == opt # None /\ opt[1] # ""

\* Python truth of an Optional path: None and the empty string are false.
TruthyPath(opt) == opt # None /\ opt[1] # <<"">>

(***************************************************************************)
(* Paths                                                                   *)
(***************************************************************************)
\* os.path.join(a, b) for a relative b: a separator is added unless a is
\* empty or already ends in one.
os_path_join(a, b) ==
    IF a = <<>> THEN b
    ELSE IF a[Len(a)] = "" THEN SubSeq(a, 1, Len(a) - 1) \o b
    ELSE a \o b

_SKLEARN_FILE_NAME == <<"model.pkl">>
_TF_DIR_NAME == <<"saved_model">>
_PYTORCH_FILE_NAME == <<"model.mar">>
_REWRAPPER_NAME == <<"rewrapper">>
_OUTPUT_DIR == <<"output">>
_OUTPUT_ESTIMATOR_DIR == <<"output_estimator">>

_generate_remote_job_output_path(base_gcs_dir) ==
    os_path_join(base_gcs_dir, _OUTPUT_DIR)

(***************************************************************************)
(* The caller's model objects                                              *)
(***************************************************************************)
ModelObjects == {"svc", "svc_plain", "sequential", "tf_module", "linear",
                 "state_dict_obj", "xgb", "fastorch"}

\* model.__module__
module_of(m) ==
    CASE m \in {"svc", "svc_plain"} ->
            <<"s","k","l","e","a","r","n",".","s","v","m">>
      [] m = "sequential" ->
            <<"k","e","r","a","s",".","m","o","d","e","l","s">>
      [] m = "linear" ->
            <<"t","o","r","c","h",".","n","n">>
      [] m \in {"tf_module", "state_dict_obj"} ->
            <<"_","_","m","a","i","n","_","_">>
      [] m = "xgb" ->
            <<"x","g","b","o","o","s","t",".","s","k","l","e","a","r","n">>
      [] m = "fastorch" ->
            <<"f","a","s","t","o","r","c","h",".","n","n">>

\* hasattr(model, attr)
hasattr(m, attr) ==
    CASE attr = "_tracking_metadata" -> m \in {"sequential", "tf_module"}
      [] attr = "state_dict" -> m \in {"linear", "state_dict_obj", "tf_module"}
      [] OTHER -> FALSE

\* Models the caller built with remote execution enabled carry the wrapper;
\* svc_plain was built without it.
InitiallyWrapped(m) == m # "svc_plain"

(***************************************************************************)
(* driver._unwrapper: detaches the remote-execution wrapper in place and   *)
(* returns the closure that puts back what it detached.                    *)
(***************************************************************************)
\* the rewrapper returned for an object whose wrapper state is w
_unwrapper(w) ==
    [kind |-> "rewrapper", obj |-> "", wrapped |-> w, fmt |-> "", name |-> <<>>]

\* rewrapper(model): the wrapper state of the model afterwards
ApplyRewrapper(rewrapper, w) == IF rewrapper.wrapped THEN TRUE ELSE w

(***************************************************************************)
(* register: framework dispatch and the three registration routines        *)
(***************************************************************************)
\* The branch of register's if/elif chain taken for model m; "" is the else.
DetectFramework(m) ==
    IF StartsWith(module_of(m), S_sklearn) THEN "sklearn"
    ELSE IF StartsWith(module_of(m), S_keras) \/ hasattr(m, "_tracking_metadata")
         THEN "tensorflow"
    ELSE IF Contains(module_of(m), S_torch) \/ hasattr(m, "state_dict")
         THEN "pytorch"
    ELSE ""

\* unique_model_name
UniqueModelName(framework, n) ==
    "vertex-ai-registered-" \o framework \o "-model-" \o ToString(n)

\* Faulty variant of GcsDir: the artifacts go to the staging bucket itself.
GcsDir_Bucket(staging_bucket, unique_model_name) == staging_bucket

\* gcs_dir
GcsDir(staging_bucket, unique_model_name) ==
    os_path_join(staging_bucket, <<unique_model_name>>)

\* Faulty variant of RewrapperFilePath: the tensorflow routine writes the
\* rewrapper beside the saved_model directory, as the other two do.
RewrapperFilePath_Flat(framework, gcs_dir) ==
    os_path_join(gcs_dir, _REWRAPPER_NAME)

\* file_path the rewrapper is serialized to
RewrapperFilePath(framework, gcs_dir) ==
    IF framework = "tensorflow"
    THEN os_path_join(gcs_dir, _TF_DIR_NAME \o _REWRAPPER_NAME)
    ELSE os_path_join(gcs_dir, _REWRAPPER_NAME)

\* file_path the model is serialized to
ModelFilePath(framework, gcs_dir) ==
    CASE framework = "sklearn" -> os_path_join(gcs_dir, _SKLEARN_FILE_NAME)
      [] framework = "tensorflow" -> os_path_join(gcs_dir, _TF_DIR_NAME)
      [] framework = "pytorch" -> os_path_join(gcs_dir, _PYTORCH_FILE_NAME)

\* save_format passed to serializer.serialize
SaveFormat(framework) == IF framework = "tensorflow" THEN "tf" ELSE ""

\* Faulty variant of ArtifactUri: the tensorflow routine uploads gcs_dir, as the
\* other two do.
ArtifactUri_GcsDir(framework, gcs_dir) == gcs_dir

\* artifact_uri passed to Model.upload
ArtifactUri(framework, gcs_dir) ==
    IF framework = "tensorflow" THEN os_path_join(gcs_dir, _TF_DIR_NAME)
    ELSE gcs_dir

\* framework_version passed to get_prebuilt_prediction_container_uri
FrameworkVersion(framework) ==
    CASE framework = "sklearn" -> S_1_0
      [] framework = "tensorflow" -> S_2_11
      [] framework = "pytorch" -> S_1_12

\* Faulty variant of Accelerator: use_gpu is not looked at.
Accelerator_Cpu(framework, use_gpu) ==
    IF framework = "sklearn" THEN None ELSE Some(S_cpu)

\* accelerator passed to get_prebuilt_prediction_container_uri; the sklearn
\* routine passes none.
Accelerator(framework, use_gpu) ==
    IF framework = "sklearn" THEN None
    ELSE Some(IF use_gpu THEN S_gpu ELSE S_cpu)

\* Faulty variant of UploadLabels: the label value is str(True).
UploadLabels_StrTrue == << <<"registered_by_vertex_ai", <<"T","r","u","e">> >> >>

\* labels passed to Model.upload
UploadLabels == << <<"registered_by_vertex_ai", S_true>> >>

\* aiplatform.helpers.get_prebuilt_prediction_container_uri; the accelerator
\* defaults to "cpu" when the caller passes none.
get_prebuilt_prediction_container_uri(framework, framework_version, accelerator) ==
    <<"u","s","-","d","o","c","k","e","r",".","p","k","g",".","d","e","v","/",
      "v","e","r","t","e","x","-","a","i","/",
      "p","r","e","d","i","c","t","i","o","n","/">>
    \o (CASE framework = "sklearn" -> S_sklearn
          [] framework = "tensorflow" -> S_tf2
          [] framework = "pytorch" -> S_pytorch)
    \o <<"-">> \o (IF accelerator = None THEN S_cpu ELSE accelerator[1]) \o <<".">>
    \o Replace(framework_version, ".", "-")
    \o <<":","l","a","t","e","s","t">>

(***************************************************************************)
(* The environment: configuration, Model Registry, CustomJob               *)
(***************************************************************************)
\* vertexai.init(staging_bucket=...) as the user left it
StagingBuckets == {None, Some(<<"">>), Some(<<"gs://bucket">>),
                   Some(<<"gs://bucket", "">>)}

S_text_bison_001 == <<"t","e","x","t","-","b","i","s","o","n","-","0","0","1">>
S_chat_bison_001 == <<"c","h","a","t","-","b","i","s","o","n","-","0","0","1">>

\* Model resources that exist before any call and were not made by register.
ForeignModels ==
    [id \in {"no-labels", "unrelated", "near-miss", "tuned", "tuned-two",
             "not-true", "custom-image"} |->
       [display_name |-> id,
        uri |-> <<"gs://elsewhere", id>>,
        image_uri |->
            IF id = "custom-image"
            THEN <<"g","c","r",".","i","o","/","x","g","b",":","1">>
            ELSE IF id = "not-true"
            THEN get_prebuilt_prediction_container_uri("sklearn", S_1_0, None)
            ELSE <<"u","s","-","d","o","c","k","e","r",".","p","k","g",".",
                   "d","e","v","/","l","l","m",":","1">>,
        labels |->
            CASE id = "no-labels" -> <<>>
              [] id = "unrelated" ->
                    << <<"team", <<"m","l">> >>, <<"stage", <<"p","r","o","d">> >> >>
              [] id = "near-miss" ->
                    << <<"a", <<"t","e","x","t","-","b","i","s","o","n","-","0","1">> >>,
                       <<"b", <<"T","e","x","t","-","b","i","s","o","n","-","0","0","1">> >>,
                       <<"c", <<"t","e","x","t","-","b","i","s","o","n","-","0","0","1","2">> >>,
                       <<"d", <<"t","e","x","t","2","-","b","i","s","o","n","-","0","0","1">> >>,
                       <<"registered_by_vertex_ai", <<"T","r","u","e">> >> >>
              [] id = "tuned" ->
                    << <<"owner", <<"m","l">> >>,
                       <<"google-vertex-llm-tuning-base-model-id", S_text_bison_001>> >>
              [] id = "tuned-two" ->
                    << <<"base", S_chat_bison_001>>,
                       <<"fallback", S_text_bison_001>> >>
              [] id = "not-true" ->
                    << <<"registered_by_vertex_ai", <<"f","a","l","s","e">> >> >>
              [] id = "custom-image" ->
                    << <<"registered_by_vertex_ai", S_true>> >>]]

\* The labels a CustomJob may be submitted with.
JobLabelChoices ==
    { <<>>,
      << <<"trained_by_vertex_ai", S_true>> >>,
      << <<"trained_by_vertex_ai", <<>> >> >>,
      << <<"trained_by_vertex_ai", <<"T","r","u","e">> >> >>,
      << <<"team", S_true>> >> }

JobName == "job-1"
JobDir == <<"gs://jobs", "job-1">>

\* aiplatform.jobs._JOB_PENDING_STATES and _JOB_COMPLETE_STATES
_JOB_PENDING_STATES == {"QUEUED", "PENDING", "RUNNING", "CANCELLING", "UPDATING"}
_JOB_COMPLETE_STATES == {"SUCCEEDED", "FAILED", "CANCELLED", "PAUSED"}

\* dict.get(key): None when the key is absent
labels_get(labels, key) ==
    IF \E i \in 1..Len(labels) : labels[i][1] = key
    THEN Some(labels[CHOOSE i \in 1..Len(labels) : labels[i][1] = key][2])
    ELSE None

\* The resources of the Model Registry.
ModelIds == DOMAIN ForeignModels \cup DOMAIN registry

ModelResource(id) ==
    IF id \in DOMAIN registry THEN registry[id] ELSE ForeignModels[id]

(***************************************************************************)
(* A caller's call                                                         *)
(***************************************************************************)
NoContent ==
    [kind |-> "", obj |-> "", wrapped |-> FALSE, fmt |-> "", name |-> <<>>]

NoArgs == [model_name |-> None, custom_job_name |-> None,
           foundation_model_name |-> None]

\* The frame of a call that has not started.
NoCall ==
    [op |-> "idle", pc |-> "idle",
     \* register
     model |-> "", use_gpu |-> FALSE, staging_bucket |-> <<>>,
     rewrapper |-> NoContent, framework |-> "", unique_model_name |-> "",
     gcs_dir |-> <<>>, image_request |-> <<>>, container_image_uri |-> <<>>,
     \* from_pretrained
     args |-> NoArgs, vertex_model |-> "", model_path |-> <<>>,
     rewrapper_path |-> <<>>, loaded |-> NoContent, job_state |-> "",
     label_index |-> 0, requested |-> <<>>,
     \* outcome
     result |-> None, error |-> "",
     \* history: the resources the call has created in the Model Registry
     writes |-> 0,
     \* history: the steps taken so far, the artifacts written and read
     \* and the job states the service reported (requested, above: the
     \* publisher-model resource names asked of Model Garden)
     trace |-> <<>>, written |-> <<>>, read |-> <<>>, observed |-> <<>>]

Count(seq, x) == Cardinality({i \in 1..Len(seq) : seq[i] = x})

(***************************************************************************)
(* The other modules before anything is done with them                     *)
(***************************************************************************)
\* A PipelineJobSchedule that has been constructed and not yet created; the
\* process-wide configuration names no network.
NoSchedule ==
    [global_network |-> None, inits |-> 0, pc |-> "new", arg |-> None,
     network |-> None, pipeline_job_network |-> None, sent |-> None,
     \* history: the configured networks create and _create read
     read |-> <<>>]

\* No SpecialistPoolServiceClient has been constructed.
NoClient ==
    [pc |-> "new", use_client_cert |-> None, use_mtls_endpoint |-> None,
     has_default_cert |-> FALSE,
     options |-> [api_endpoint |-> None, client_cert_source |-> None],
     api_endpoint |-> None, client_cert_source |-> None, error |-> "",
     calls |-> 0, call |-> <<>>, sent |-> <<>>]

\* No endpoint and no deployment resource pool exist.
Endpoints == {"e1", "e2"}

NoServing ==
    [pool |-> FALSE, endpoints |-> {}, deployed |-> {},
     \* endpoint._gca_resource.deployed_models, the client's copy
     local |-> [e \in Endpoints |-> <<>>],
     next_id |-> 1,
     \* history: the last deploy or undeploy made through each endpoint
     last |-> [e \in Endpoints |-> <<>>]]

Init ==
    /\ config \in [staging_bucket : StagingBuckets,
                   project : {"proj"}, location : {"us-central1"},
                   credentials : {"adc"}]
    /\ wrapped = [m \in ModelObjects |-> InitiallyWrapped(m)]
    /\ store = <<>>
    /\ registry = <<>>
    /\ job = [state |-> "NOT_SUBMITTED", labels |-> <<>>,
              output_uri_prefix |-> JobDir]
    /\ callers = {"c1"}
    /\ proc = [c \in {"c1", "c2"} |-> NoCall]
    /\ ncalls = 0
    /\ uniq = 0
    /\ ledger = <<>>
    /\ schedule = NoSchedule
    /\ client = NoClient
    /\ serving = NoServing

CanCall(c) ==
    /\ c \in callers
    /\ proc[c].pc \in {"idle", "done"}
    /\ ncalls < MaxCalls

\* The call returns or raises: control is back with the caller.
Finish(frame, result, error) ==
    [frame EXCEPT !.pc = "done", !.result = result, !.error = error]

Step(frame, pc, event) ==
    [frame EXCEPT !.pc = pc, !.trace = Append(@, event)]

(***************************************************************************)
(* register                                                                *)
(***************************************************************************)
\* Faulty variant of StagingBucketMissing: only None counts as not set.
StagingBucketMissing_NoneOnly(staging_bucket) == staging_bucket = None

\* Line 328: not staging_bucket
StagingBucketMissing(staging_bucket) == ~TruthyPath(staging_bucket)

\* Faulty variant of Register: a missing staging bucket is replaced by a
\* default one in the global configuration.
Register_DefaultBucket(c, m, use_gpu) ==
    /\ CanCall(c)
    /\ ncalls' = ncalls + 1
    /\ config' = IF StagingBucketMissing(config.staging_bucket)
                 THEN [config EXCEPT !.staging_bucket = Some(<<"gs://default">>)]
                 ELSE config
    /\ proc' = [proc EXCEPT ![c] =
            [NoCall EXCEPT !.op = "register", !.model = m, !.use_gpu = use_gpu,
                           !.pc = "unwrap",
                           !.staging_bucket = config'.staging_bucket[1]]]
    /\ UNCHANGED <<other_modules, wrapped, store, registry, job, callers, uniq, ledger>>

\* Lines 327-332: read the staging bucket, fail if it is not set.
Register(c, m, use_gpu) ==
    /\ CanCall(c)
    /\ ncalls' = ncalls + 1
    /\ LET frame == [NoCall EXCEPT !.op = "register", !.model = m,
                                   !.use_gpu = use_gpu] IN
       IF StagingBucketMissing(config.staging_bucket)
       THEN proc' = [proc EXCEPT ![c] = Finish(frame, None, "ConfigurationError")]
       ELSE proc' = [proc EXCEPT ![c] =
                [frame EXCEPT !.pc = "unwrap",
                              !.staging_bucket = config.staging_bucket[1]]]
    /\ UNCHANGED <<other_modules, config, wrapped, store, registry, job, callers, uniq, ledger>>

\* Line 335: rewrapper = driver._unwrapper(model)
Unwrap(c) ==
    /\ proc[c].pc = "unwrap"
    /\ proc' = [proc EXCEPT ![c] =
            [Step(@, "new_serializer", "unwrap")
                EXCEPT !.rewrapper = _unwrapper(wrapped[proc[c].model])]]
    /\ wrapped' = [wrapped EXCEPT ![proc[c].model] = FALSE]
    /\ UNCHANGED <<other_modules, config, store, registry, job, callers, ncalls, uniq, ledger>>

\* Line 337: serializer = any_serializer.AnySerializer(), outside the try.
\* The constructor registers the framework serializers and may raise.
NewSerializer(c) ==
    /\ proc[c].pc = "new_serializer"
    /\ \E ok \in BOOLEAN :
         proc' = [proc EXCEPT ![c] =
            IF ok THEN Step(@, "dispatch", "new_serializer")
            ELSE Finish(Step(@, "done", "new_serializer"), None,
                        "SerializerInitFailure")]
    /\ UNCHANGED <<other_modules, config, wrapped, store, registry, job, callers, ncalls, uniq, ledger>>

\* Lines 339-357: the if/elif chain, and the head of the routine it calls
\* (unique_model_name, gcs_dir).
Dispatch(c) ==
    /\ proc[c].pc = "dispatch"
    /\ LET framework == DetectFramework(proc[c].model)
           name == UniqueModelName(framework, uniq + 1) IN
       IF framework = ""
       THEN /\ proc' = [proc EXCEPT ![c] =
                    [@ EXCEPT !.pc = "finally",
                              !.error = "UnsupportedFrameworkError"]]
            /\ uniq' = uniq
       ELSE /\ proc' = [proc EXCEPT ![c] =
                    [@ EXCEPT !.pc = "serialize_rewrapper",
                              !.framework = framework,
                              !.unique_model_name = name,
                              !.gcs_dir = GcsDir(proc[c].staging_bucket, name)]]
            /\ uniq' = uniq + 1
    /\ UNCHANGED <<other_modules, config, wrapped, store, registry, job, callers, ncalls, ledger>>

(***************************************************************************)
(* serialization_engine.any_serializer.AnySerializer over the artifact     *)
(* store.  A path with a trailing "/" names the same directory as the path *)
(* without it.                                                             *)
(***************************************************************************)
StorePath(path) ==
    IF Len(path) > 1 /\ path[Len(path)] = ""
    THEN SubSeq(path, 1, Len(path) - 1)
    ELSE path

serialize(st, content, path) == (StorePath(path) :> content) @@ st

CanDeserialize(st, path) == StorePath(path) \in DOMAIN st

deserialize(st, path) == st[StorePath(path)]

\* Faulty variant of AfterSerialize: a failed serialization is passed over.
AfterSerialize_Continue(ok, next) == next

\* Where a registration routine is after serializer.serialize: at its next
\* statement, or, when serialize raised, out of register's try block and in
\* its finally clause.
AfterSerialize(ok, next) == IF ok THEN next ELSE "finally"

\* Lines 149-151, 184-186, 225-227: serializer.serialize(rewrapper, file_path)
SerializeRewrapper(c) ==
    /\ proc[c].pc = "serialize_rewrapper"
    /\ LET file_path == RewrapperFilePath(proc[c].framework, proc[c].gcs_dir) IN
       \E ok \in BOOLEAN :
         IF ok
         THEN /\ store' = serialize(store, proc[c].rewrapper, file_path)
              /\ proc' = [proc EXCEPT ![c] =
                    [Step(@, AfterSerialize(TRUE, "serialize_model"),
                          "serialize_rewrapper")
                        EXCEPT !.written = Append(@, file_path)]]
         ELSE /\ store' = store
              /\ proc' = [proc EXCEPT ![c] =
                    [Step(@, AfterSerialize(FALSE, "serialize_model"),
                          "serialize_rewrapper")
                        EXCEPT !.error = "SerializationFailure"]]
    /\ UNCHANGED <<other_modules, config, wrapped, registry, job, callers, ncalls, uniq, ledger>>

\* Lines 152-154, 187-193, 229-231: serializer.serialize(model, file_path)
SerializeModel(c) ==
    /\ proc[c].pc = "serialize_model"
    /\ LET file_path == ModelFilePath(proc[c].framework, proc[c].gcs_dir)
           content == [kind |-> "model", obj |-> proc[c].model,
                       wrapped |-> wrapped[proc[c].model],
                       fmt |-> SaveFormat(proc[c].framework),
                       name |-> <<>>] IN
       \E ok \in BOOLEAN :
         IF ok
         THEN /\ store' = serialize(store, content, file_path)
              /\ proc' = [proc EXCEPT ![c] =
                    [Step(@, AfterSerialize(TRUE, "resolve_image"),
                          "serialize_model")
                        EXCEPT !.written = Append(@, file_path)]]
         ELSE /\ store' = store
              /\ proc' = [proc EXCEPT ![c] =
                    [Step(@, AfterSerialize(FALSE, "resolve_image"),
                          "serialize_model")
                        EXCEPT !.error = "SerializationFailure"]]
    /\ UNCHANGED <<other_modules, config, wrapped, registry, job, callers, ncalls, uniq, ledger>>

\* Lines 156-159, 195-199, 233-237: the serving container image
ResolveImage(c) ==
    /\ proc[c].pc = "resolve_image"
    /\ LET framework_version == FrameworkVersion(proc[c].framework)
           accelerator == Accelerator(proc[c].framework, proc[c].use_gpu)
           request == <<proc[c].framework, framework_version, accelerator>> IN
       \E ok \in BOOLEAN :
         proc' = [proc EXCEPT ![c] =
            IF ok
            THEN [Step(@, "upload", "resolve_image")
                    EXCEPT !.image_request = request,
                           !.container_image_uri =
                        get_prebuilt_prediction_container_uri(
                            proc[c].framework, framework_version, accelerator)]
            ELSE [Step(@, "finally", "resolve_image")
                    EXCEPT !.image_request = request,
                           !.error = "ImageResolutionFailure"]]
    /\ UNCHANGED <<other_modules, config, wrapped, store, registry, job, callers, ncalls, uniq,
                   ledger>>

\* The resource id the registry gives the next uploaded model.
NewModelId(reg) == "model-" \o ToString(Cardinality(DOMAIN reg) + 1)

\* Faulty variant of Upload: the routine returns a Model object it has not
\* uploaded.
Upload_NoWrite(c) ==
    /\ proc[c].pc = "upload"
    /\ proc' = [proc EXCEPT ![c] =
            [Step(@, "finally", "upload")
                EXCEPT !.result = Some([NoContent EXCEPT
                            !.kind = "aiplatform.Model",
                            !.obj = NewModelId(registry)])]]
    /\ UNCHANGED <<other_modules, config, wrapped, store, registry, job, callers, ncalls, uniq,
                   ledger>>

\* Lines 161-167, 201-207, 239-245: aiplatform.Model.upload(..., sync=True)
Upload(c) ==
    /\ proc[c].pc = "upload"
    /\ LET id == NewModelId(registry)
           resource ==
              [display_name |-> proc[c].unique_model_name,
               uri |-> ArtifactUri(proc[c].framework, proc[c].gcs_dir),
               image_uri |-> proc[c].container_image_uri,
               labels |-> UploadLabels] IN
       \E ok \in BOOLEAN :
         IF ok
         THEN /\ registry' = (id :> resource) @@ registry
              /\ ledger' = (id :> [caller |-> c, model |-> proc[c].model,
                                   framework |-> proc[c].framework,
                                   use_gpu |-> proc[c].use_gpu,
                                   rewrapper |-> proc[c].rewrapper,
                                   written |-> proc[c].written]) @@ ledger
              /\ proc' = [proc EXCEPT ![c] =
                    [Step(@, "finally", "upload")
                        EXCEPT !.writes = @ + 1,
                               !.result = Some([NoContent EXCEPT
                                    !.kind = "aiplatform.Model", !.obj = id])]]
         ELSE /\ registry' = registry
              /\ ledger' = ledger
              /\ proc' = [proc EXCEPT ![c] =
                    [Step(@, "finally", "upload") EXCEPT !.error = "UploadFailure"]]
    /\ UNCHANGED <<other_modules, config, wrapped, store, job, callers, ncalls, uniq>>

\* Faulty variant of Reraise: the exception is wrapped in a new one.
Reraise_Wrapped(error) == "RegistrationError"

\* Lines 358-359: except Exception as e: raise e
Reraise(error) == error

\* Lines 358-361: the exception, if any, is raised again, the finally clause
\* applies the rewrapper, then the return value or the exception reaches the
\* caller.
Finally(c) ==
    /\ proc[c].pc = "finally"
    /\ wrapped' = [wrapped EXCEPT ![proc[c].model] =
                        ApplyRewrapper(proc[c].rewrapper, @)]
    /\ proc' = [proc EXCEPT ![c] =
            Step([@ EXCEPT !.error = IF @ = "" THEN "" ELSE Reraise(@)],
                 "done", "rewrap")]
    /\ UNCHANGED <<other_modules, config, store, registry, job, callers, ncalls, uniq, ledger>>

(***************************************************************************)
(* from_pretrained: helpers                                                *)
(***************************************************************************)
\* Faulty variant of _get_model_file_from_image_uri: an image that is not
\* recognised is read as a whole directory.
_get_model_file_from_image_uri_Default(container_image_uri) ==
    IF Contains(container_image_uri, S_sklearn) THEN _SKLEARN_FILE_NAME
    ELSE IF Contains(container_image_uri, S_pytorch) THEN _PYTORCH_FILE_NAME
    ELSE <<"">>

\* The model file name; <<>> stands for the ValueError of the else branch.
_get_model_file_from_image_uri(container_image_uri) ==
    IF Contains(container_image_uri, S_tf) THEN <<"">>
    ELSE IF Contains(container_image_uri, S_sklearn) THEN _SKLEARN_FILE_NAME
    ELSE IF Contains(container_image_uri, S_pytorch) THEN _PYTORCH_FILE_NAME
    ELSE <<>>

\* Faulty variant of _verify_custom_job: only the first test, `not labels.get(...)`.
_verify_custom_job_PresenceOnly(labels) ==
    labels_get(labels, "trained_by_vertex_ai") \in {None, Some(<<>>)}

\* TRUE when _verify_custom_job raises.  not "" and not None are both true.
_verify_custom_job(labels) ==
    \/ labels_get(labels, "trained_by_vertex_ai") \in {None, Some(<<>>)}
    \/ labels_get(labels, "trained_by_vertex_ai") # Some(S_true)

\* passed_args
PassedArgs(args) ==
    Cardinality({k \in DOMAIN args : args[k] # None})

\* Faulty variant of _check_from_pretrained_passed_exactly_one_arg: passed_args < 1.
_check_from_pretrained_passed_at_least_one_arg(args) == PassedArgs(args) < 1

\* TRUE when _check_from_pretrained_passed_exactly_one_arg raises.
_check_from_pretrained_passed_exactly_one_arg(args) == PassedArgs(args) # 1

\* re.match(r"(^[a-z]+-[a-z]+-[0-9]{3}$)", v): "$" also matches before a
\* final newline.
TunedIdMatch(v) ==
    \E i, j \in 1..Len(v) :
        /\ 1 < i /\ i + 1 < j
        /\ v[i] = "-" /\ v[j] = "-"
        /\ \A k \in 1..(i - 1) : v[k] \in LowerCase
        /\ \A k \in (i + 1)..(j - 1) : v[k] \in LowerCase
        /\ \/ Len(v) = j + 3
           \/ Len(v) = j + 4 /\ v[j + 4] = "\n"
        /\ \A k \in (j + 1)..(j + 3) : v[k] \in Digit

\* The index of the last "-" of v (0 if none): str.rpartition("-")
LastDash(v) ==
    IF \E i \in 1..Len(v) : v[i] = "-"
    THEN CHOOSE i \in 1..Len(v) :
            v[i] = "-" /\ \A k \in (i + 1)..Len(v) : v[k] # "-"
    ELSE 0

S_publishers_google_models ==
    <<"p","u","b","l","i","s","h","e","r","s","/","g","o","o","g","l","e","/",
      "m","o","d","e","l","s","/">>

\* _language_models._get_model_id_from_tuning_model_id
_get_model_id_from_tuning_model_id(tuning_model_id) ==
    S_publishers_google_models
    \o SubSeq(tuning_model_id, 1, LastDash(tuning_model_id) - 1)
    \o <<"@">>
    \o SubSeq(tuning_model_id, LastDash(tuning_model_id) + 1, Len(tuning_model_id))

\* The resource name _get_publisher_model_resource asks Model Garden for.
PublisherResourceName(short_model_name) ==
    IF ~Contains(short_model_name, <<"/">>)
    THEN S_publishers_google_models \o short_model_name
    ELSE short_model_name

S_text_bison_at_001 == <<"t","e","x","t","-","b","i","s","o","n","@","0","0","1">>

\* The publisher models Model Garden holds.
PublisherModels == { S_publishers_google_models \o S_text_bison_at_001 }

\* The candidate labels of the tuned-model scan from position `from` on.
NextCandidate(labels, from) ==
    IF \E i \in from..Len(labels) : TunedIdMatch(labels[i][2])
    THEN CHOOSE i \in from..Len(labels) :
            /\ TunedIdMatch(labels[i][2])
            /\ \A k \in from..(i - 1) : ~TunedIdMatch(labels[k][2])
    ELSE 0

(***************************************************************************)
(* from_pretrained                                                         *)
(***************************************************************************)
ModelNameChoices ==
    {None, Some(""), Some("no-such-model")} \cup {Some(id) : id \in ModelIds}

JobNameChoices == {None, Some(""), Some(JobName), Some("no-such-job")}

FoundationNameChoices ==
    {None, Some(<<>>), Some(S_text_bison_at_001),
     Some(S_publishers_google_models \o S_text_bison_at_001),
     Some(<<"n","o","-","s","u","c","h","@","0","0","1">>)}

\* The argument lists tried: every way to pass exactly one argument, and
\* for the other counts the combinations of a few values of each.
ArgChoices ==
    LET all == [model_name : ModelNameChoices,
                custom_job_name : JobNameChoices,
                foundation_model_name : FoundationNameChoices]
        few == [model_name : {None, Some(""), Some("tuned")},
                custom_job_name : {None, Some(""), Some(JobName)},
                foundation_model_name : {None, Some(<<>>), Some(S_text_bison_at_001)}]
    IN {a \in all : PassedArgs(a) = 1} \cup few

\* Line 398 and the three `if <arg>:` tests of lines 404, 460 and 484.
FromPretrained(c, args) ==
    /\ CanCall(c)
    /\ ncalls' = ncalls + 1
    /\ LET frame == [NoCall EXCEPT !.op = "from_pretrained", !.args = args] IN
       proc' = [proc EXCEPT ![c] =
          IF _check_from_pretrained_passed_exactly_one_arg(args)
          THEN Finish(frame, None, "ArgumentError")
          ELSE IF Truthy(args.model_name)
          THEN [frame EXCEPT !.pc = "fetch_model"]
          ELSE IF Truthy(args.custom_job_name)
          THEN [frame EXCEPT !.pc = "fetch_job"]
          ELSE IF args.foundation_model_name \notin {None, Some(<<>>)}
          THEN [frame EXCEPT !.pc = "foundation"]
          ELSE Finish(frame, None, "")]
    /\ UNCHANGED <<other_modules, config, wrapped, store, registry, job, callers, uniq, ledger>>

\* Faulty variant of LabelBranch: every model that is not registered is refused as
\* not registered; the labels are never scanned.
LabelBranch_NoScan(labels) ==
    IF labels_get(labels, "registered_by_vertex_ai") = Some(S_true)
    THEN "registered"
    ELSE "no_labels"

\* Faulty variant of LabelBranch: the label registered_by_vertex_ai counts whatever
\* its value.
LabelBranch_KeyPresent(labels) ==
    IF labels_get(labels, "registered_by_vertex_ai") # None
    THEN "registered"
    ELSE IF labels = <<>> THEN "no_labels"
    ELSE "scan"

\* Lines 409-431: the branch taken on the labels of the fetched model.
LabelBranch(labels) ==
    IF labels_get(labels, "registered_by_vertex_ai") = Some(S_true)
    THEN "registered"
    ELSE IF labels = <<>> THEN "no_labels"
    ELSE "scan"

\* Lines 406-431: aiplatform.Model(model_name, ...) and the label tests.
FetchModel(c) ==
    /\ proc[c].pc = "fetch_model"
    /\ LET model_name == proc[c].args.model_name[1]
           frame == [Step(proc[c], "fetch_model", "fetch_model")
                        EXCEPT !.vertex_model = model_name] IN
       proc' = [proc EXCEPT ![c] =
          IF model_name \notin ModelIds
          THEN Finish(Step(proc[c], "done", "fetch_model"), None, "NotFound")
          ELSE LET vertex_model == ModelResource(model_name)
                   model_file == _get_model_file_from_image_uri(vertex_model.image_uri)
               IN
               IF LabelBranch(vertex_model.labels) = "registered"
               THEN IF model_file = <<>>
                    THEN Finish(frame, None, "UnsupportedFrameworkError")
                    ELSE [frame EXCEPT
                            !.pc = "deserialize_model",
                            !.model_path = os_path_join(vertex_model.uri, model_file),
                            !.rewrapper_path =
                                os_path_join(vertex_model.uri, _REWRAPPER_NAME)]
               ELSE IF LabelBranch(vertex_model.labels) = "no_labels"
               THEN Finish(frame, None, "NotRegisteredError")
               ELSE [frame EXCEPT !.pc = "tuned_scan", !.label_index = 1]]
    /\ UNCHANGED <<other_modules, config, wrapped, store, registry, job, callers, ncalls, uniq,
                   ledger>>

\* Lines 417 and 128-130: model = serializer.deserialize(<model path>)
DeserializeModel(c) ==
    /\ proc[c].pc = "deserialize_model"
    /\ \E ok \in BOOLEAN :
         proc' = [proc EXCEPT ![c] =
            IF ok /\ CanDeserialize(store, proc[c].model_path)
            THEN [Step(@, "deserialize_rewrapper", "deserialize_model")
                    EXCEPT !.loaded = deserialize(store, proc[c].model_path),
                           !.read = Append(@, proc[c].model_path)]
            ELSE Finish(Step(@, "done", "deserialize_model"), None,
                        "DeserializationFailure")]
    /\ UNCHANGED <<other_modules, config, wrapped, store, registry, job, callers, ncalls, uniq,
                   ledger>>

\* Faulty variant of Rewrapped: the rewrapper is not applied.
Rewrapped_Skipped(rewrapper, model) == model

\* Lines 134 and 424: rewrapper(model)
Rewrapped(rewrapper, model) ==
    [model EXCEPT !.wrapped = ApplyRewrapper(rewrapper, @)]

\* Lines 419-425 and 131-135: rewrapper = serializer.deserialize(<rewrapper
\* path>); rewrapper(model); return model
DeserializeRewrapper(c) ==
    /\ proc[c].pc = "deserialize_rewrapper"
    /\ \E ok \in BOOLEAN :
         proc' = [proc EXCEPT ![c] =
            IF ok /\ CanDeserialize(store, proc[c].rewrapper_path)
            THEN LET rewrapper == deserialize(store, proc[c].rewrapper_path)
                     model == Rewrapped(rewrapper, proc[c].loaded)
                 IN Finish([Step(Step(@, "done", "deserialize_rewrapper"),
                                 "done", "rewrap")
                              EXCEPT !.read = Append(@, proc[c].rewrapper_path)],
                           Some(model), "")
            ELSE Finish(Step(@, "done", "deserialize_rewrapper"), None,
                        "DeserializationFailure")]
    /\ UNCHANGED <<other_modules, config, wrapped, store, registry, job, callers, ncalls, uniq,
                   ledger>>

\* The ways the construction of _publisher_models._PublisherModel fails, and
\* the exceptions _model_garden_models._from_pretrained raises.
PublisherModelFailures == {"NotFound", "PermissionDenied"}
BuildFailures == {"ValueError", "TypeError"}

\* What Model Garden does for resource name n: "handle", or a failure of the
\* resolution, or a failure of the construction of the handle.
GardenOutcomes(n) ==
    IF n \in PublisherModels
    THEN {<<"handle", "">>, <<"resolve", "PermissionDenied">>}
            \cup {<<"build", e>> : e \in BuildFailures}
    ELSE {<<"resolve", "NotFound">>}

GardenHandle(n) == [NoContent EXCEPT !.kind = "_ModelGardenModel", !.name = n]

\* Faulty variant of ResolutionError: the failure is raised as it is.
ResolutionError_Unchanged(failure) == failure

\* Lines 271-277: the bare except turns every failure of the construction
\* into the ValueError "Please provide a valid Model Garden model resource."
ResolutionError(failure) == "InvalidModelGardenReferenceError"

\* The error a caller sees when the construction of the handle raises e.
BuildError(e) == IF e = "ValueError" THEN "ModelGardenValueError"
                 ELSE "ModelGardenFailure"

\* The errors that are ValueErrors.
ValueErrors == {"InvalidModelGardenReferenceError", "ModelGardenValueError"}

\* Faulty variant of ScanCatches: the scan has no try/except.
ScanCatches_Nothing(error) == FALSE

\* Line 454: except ValueError
ScanCatches(error) == error \in ValueErrors

\* Lines 433-458: the scan of the labels for a tuned-model id.
TunedScan(c) ==
    /\ proc[c].pc = "tuned_scan"
    /\ LET labels == ModelResource(proc[c].vertex_model).labels
           i == NextCandidate(labels, proc[c].label_index) IN
       IF i = 0
       THEN proc' = [proc EXCEPT ![c] = Finish(@, None, "NotFromModelGardenError")]
       ELSE LET short_model_id == _get_model_id_from_tuning_model_id(labels[i][2])
                name == PublisherResourceName(short_model_id)
                asked == [Step(proc[c], "tuned_scan", "resolve_publisher")
                            EXCEPT !.requested = Append(@, name),
                                   !.label_index = i + 1]
                next(frame, error) ==
                    IF ScanCatches(error) THEN frame
                    ELSE Finish(frame, None, error) IN
            \E outcome \in GardenOutcomes(name) :
               proc' = [proc EXCEPT ![c] =
                  IF outcome[1] = "handle"
                  THEN Finish(Step(asked, "done", "build_handle"),
                              Some(GardenHandle(short_model_id)), "")
                  ELSE IF outcome[1] = "resolve"
                  THEN next(Step(asked, "tuned_scan", "resolution_failed"),
                            ResolutionError(outcome[2]))
                  ELSE next(Step(asked, "tuned_scan", "build_handle"),
                            BuildError(outcome[2]))]
    /\ UNCHANGED <<other_modules, config, wrapped, store, registry, job, callers, ncalls, uniq,
                   ledger>>

\* Faulty variant of NeedsPoll: every job is waited for.
NeedsPoll_Always(job_state) == TRUE

\* Line 469: job_state in aiplatform_jobs._JOB_PENDING_STATES
NeedsPoll(job_state) == job_state \in _JOB_PENDING_STATES

\* Lines 461-482 up to the poll: CustomJob.get, job.state, _verify_custom_job,
\* and the decision for a job that is not pending.
FetchJob(c) ==
    /\ proc[c].pc = "fetch_job"
    /\ LET frame == [Step(proc[c], "fetch_job", "fetch_job")
                        EXCEPT !.job_state = job.state,
                               !.observed = Append(@, job.state)]
           job_dir == job.output_uri_prefix IN
       proc' = [proc EXCEPT ![c] =
          IF proc[c].args.custom_job_name[1] # JobName \/ job.state = "NOT_SUBMITTED"
          THEN Finish(Step(proc[c], "done", "fetch_job"), None, "NotFound")
          ELSE IF _verify_custom_job(job.labels)
          THEN Finish(frame, None, "UnverifiedJobError")
          ELSE LET ready ==
                    [frame EXCEPT
                        !.model_path = os_path_join(
                            _generate_remote_job_output_path(job_dir),
                            _OUTPUT_ESTIMATOR_DIR),
                        !.rewrapper_path = os_path_join(
                            _generate_remote_job_output_path(job_dir),
                            _REWRAPPER_NAME)]
               IN
               IF NeedsPoll(job.state)
               THEN [ready EXCEPT !.pc = "poll"]
               ELSE IF job.state = "SUCCEEDED"
               THEN [ready EXCEPT !.pc = "deserialize_model"]
               ELSE Finish(frame, None, "JobNotSucceededError")]
    /\ UNCHANGED <<other_modules, config, wrapped, store, registry, job, callers, ncalls, uniq,
                   ledger>>

\* Faulty variant of PollReturns: the wait ends only when the job succeeds.
PollReturns_OnSuccess(state) == state = "SUCCEEDED"

\* training._get_remote_logs_until_complete(job) polls the job, without a
\* limit, and returns once the job is in a complete state.
PollReturns(state) == state \in _JOB_COMPLETE_STATES

\* Line 473: training._get_remote_logs_until_complete(job)
Poll(c) ==
    /\ proc[c].pc = "poll"
    /\ PollReturns(job.state)
    /\ proc' = [proc EXCEPT ![c] = Step(@, "read_state", "poll")]
    /\ UNCHANGED <<other_modules, config, wrapped, store, registry, job, callers, ncalls, uniq,
                   ledger>>

\* Faulty variant of StateAfterPoll: the state read before the poll is kept.
StateAfterPoll_Stale(before, now) == before

\* The state the decision of lines 477-482 is taken on: line 475 reads
\* job.state again after the poll.
StateAfterPoll(before, now) == now

\* Lines 475-482: job_state = job.state, then the decision.
ReadState(c) ==
    /\ proc[c].pc = "read_state"
    /\ LET job_state == StateAfterPoll(proc[c].job_state, job.state)
           frame == [Step(proc[c], "read_state", "read_state")
                        EXCEPT !.job_state = job_state,
                               !.observed = Append(@, job.state)] IN
       proc' = [proc EXCEPT ![c] =
          IF job_state = "SUCCEEDED"
          THEN [frame EXCEPT !.pc = "deserialize_model"]
          ELSE Finish(frame, None, "JobNotSucceededError")]
    /\ UNCHANGED <<other_modules, config, wrapped, store, registry, job, callers, ncalls, uniq,
                   ledger>>

\* Lines 484-488: the foundation-model path.
Foundation(c) ==
    /\ proc[c].pc = "foundation"
    /\ LET n == proc[c].args.foundation_model_name[1]
           name == PublisherResourceName(n)
           asked == [Step(proc[c], "done", "resolve_publisher")
                        EXCEPT !.requested = Append(@, name)] IN
       \E outcome \in GardenOutcomes(name) :
          proc' = [proc EXCEPT ![c] =
             IF outcome[1] = "handle"
             THEN Finish(Step(asked, "done", "build_handle"),
                         Some(GardenHandle(n)), "")
             ELSE IF outcome[1] = "resolve"
             THEN Finish(Step(asked, "done", "resolution_failed"), None,
                         ResolutionError(outcome[2]))
             ELSE Finish(Step(asked, "done", "build_handle"), None,
                         BuildError(outcome[2]))]
    /\ UNCHANGED <<other_modules, config, wrapped, store, registry, job, callers, ncalls, uniq,
                   ledger>>

(***************************************************************************)
(* The remote training job                                                 *)
(***************************************************************************)
JobTransitions ==
    {<<"PENDING", "RUNNING">>, <<"PENDING", "CANCELLED">>,
     <<"RUNNING", "SUCCEEDED">>, <<"RUNNING", "FAILED">>,
     <<"RUNNING", "CANCELLED">>, <<"RUNNING", "PAUSED">>,
     <<"PAUSED", "RUNNING">>}

TrainedEstimator ==
    [NoContent EXCEPT !.kind = "model", !.obj = "trained-estimator"]

\* Only FetchJob, Poll and ReadState observe the job, so its steps are taken
\* while a caller is at one of them: a step of the job taken at any other
\* moment commutes with the steps up to the next of these.
JobObserved ==
    \E c \in callers : proc[c].pc \in {"fetch_job", "poll", "read_state"}

\* The remote training job is submitted, by this SDK's remote training
\* (label trained_by_vertex_ai=true) or by something else.
JobSubmitted ==
    /\ JobObserved
    /\ job.state = "NOT_SUBMITTED"
    /\ \E labels \in JobLabelChoices :
          job' = [job EXCEPT !.state = "PENDING", !.labels = labels]
    /\ UNCHANGED <<other_modules, config, wrapped, store, registry, proc, callers, ncalls, uniq,
                   ledger>>

\* The job moves on; a job that succeeds has written its estimator and the
\* rewrapper to its output directory.
JobProgress ==
    /\ JobObserved
    /\ \E t \in JobTransitions :
         /\ t[1] = job.state
         /\ job' = [job EXCEPT !.state = t[2]]
         /\ store' =
              IF t[2] = "SUCCEEDED"
              THEN serialize(
                     serialize(store, TrainedEstimator,
                        os_path_join(_generate_remote_job_output_path(JobDir),
                                     _OUTPUT_ESTIMATOR_DIR)),
                     _unwrapper(TRUE),
                     os_path_join(_generate_remote_job_output_path(JobDir),
                                  _REWRAPPER_NAME))
              ELSE store
    /\ UNCHANGED <<other_modules, config, wrapped, registry, proc, callers, ncalls, uniq, ledger>>

Next ==
    \/ \E c \in callers, m \in ModelObjects, use_gpu \in BOOLEAN :
          Register(c, m, use_gpu)
    \/ \E c \in callers : Unwrap(c)
    \/ \E c \in callers : NewSerializer(c)
    \/ \E c \in callers : Dispatch(c)
    \/ \E c \in callers : SerializeRewrapper(c)
    \/ \E c \in callers : SerializeModel(c)
    \/ \E c \in callers : ResolveImage(c)
    \/ \E c \in callers : Upload(c)
    \/ \E c \in callers : Finally(c)
    \/ \E c \in callers, args \in ArgChoices : FromPretrained(c, args)
    \/ \E c \in callers : FetchModel(c)
    \/ \E c \in callers : DeserializeModel(c)
    \/ \E c \in callers : DeserializeRewrapper(c)
    \/ \E c \in callers : TunedScan(c)
    \/ \E c \in callers : FetchJob(c)
    \/ \E c \in callers : Poll(c)
    \/ \E c \in callers : ReadState(c)
    \/ \E c \in callers : Foundation(c)
    \/ JobSubmitted
    \/ JobProgress

Spec == Init /\ [][Next]_vars

\* from_pretrained(custom_job_name=...) alone, with the job it waits for.  A
\* call that has started runs on: the thread that made it is scheduled until
\* the call returns or raises.
JobArgChoices == {a \in ArgChoices : a.custom_job_name # None}

NextJobPath ==
    \/ \E c \in callers, args \in JobArgChoices : FromPretrained(c, args)
    \/ \E c \in callers : FetchJob(c)
    \/ \E c \in callers : Poll(c)
    \/ \E c \in callers : ReadState(c)
    \/ \E c \in callers : DeserializeModel(c)
    \/ \E c \in callers : DeserializeRewrapper(c)
    \/ JobSubmitted
    \/ JobProgress

SpecJobPath ==
    /\ Init
    /\ [][NextJobPath]_vars
    /\ WF_vars(\E c \in callers : FetchJob(c))
    /\ WF_vars(\E c \in callers : Poll(c))
    /\ WF_vars(\E c \in callers : ReadState(c))
    /\ WF_vars(\E c \in callers : DeserializeModel(c))
    /\ WF_vars(\E c \in callers : DeserializeRewrapper(c))

\* Two threads call register at the same time, on the same model object or
\* on different ones.  register takes no lock, so the steps of the two calls
\* interleave freely.
ConcurrentModels == {"svc", "sequential"}

InitConcurrent ==
    /\ config = [staging_bucket |-> Some(<<"gs://bucket">>), project |-> "proj",
                 location |-> "us-central1", credentials |-> "adc"]
    /\ wrapped = [m \in ModelObjects |-> InitiallyWrapped(m)]
    /\ store = <<>>
    /\ registry = <<>>
    /\ job = [state |-> "NOT_SUBMITTED", labels |-> <<>>,
              output_uri_prefix |-> JobDir]
    /\ callers = {"c1", "c2"}
    /\ proc = [c \in {"c1", "c2"} |-> NoCall]
    /\ ncalls = 0
    /\ uniq = 0
    /\ ledger = <<>>
    /\ schedule = NoSchedule
    /\ client = NoClient
    /\ serving = NoServing

NextConcurrent ==
    \/ \E c \in callers, m \in ConcurrentModels :
          proc[c].pc = "idle" /\ Register(c, m, FALSE)
    \/ \E c \in callers : Unwrap(c)
    \/ \E c \in callers : NewSerializer(c)
    \/ \E c \in callers : Dispatch(c)
    \/ \E c \in callers : SerializeRewrapper(c)
    \/ \E c \in callers : SerializeModel(c)
    \/ \E c \in callers : ResolveImage(c)
    \/ \E c \in callers : Upload(c)
    \/ \E c \in callers : Finally(c)

SpecConcurrent == InitConcurrent /\ [][NextConcurrent]_vars

(***************************************************************************)
(* PipelineJobSchedule.create                                              *)
(***************************************************************************)
\* Calls to aiplatform.init(network=...) made in one run.
MaxInits == 2

\* The variables of model_utils, which the other modules never touch.
model_utils_state ==
    <<config, wrapped, store, registry, job, proc, callers, ncalls, uniq,
      ledger>>

\* The network argument of create: omitted, empty, or a network name.
NetworkArgs == {None, Some(""), Some("net-a"), Some("net-c")}

\* initializer.global_config.network: unset or a network name.
ConfiguredNetworks == {None, Some("net-a"), Some("net-b")}

\* Faulty variant of NetworkOrConfigured: the configuration is never consulted.
NetworkOrConfigured_ArgumentOnly(network, configured) == network

\* network or initializer.global_config.network
NetworkOrConfigured(network, configured) ==
    IF Truthy(network) THEN network ELSE configured

\* aiplatform.init(network=n), from this thread between calls or from another
\* thread at any time.
aiplatform_init(n) ==
    /\ schedule.inits < MaxInits
    /\ n # None
    /\ schedule' = [schedule EXCEPT !.global_network = n, !.inits = @ + 1]
    /\ UNCHANGED <<model_utils_state, client, serving>>

\* PipelineJobSchedule.create(network=...): resolves the network and hands
\* over to _create, which runs at once or, with sync=False, later.
create(network) ==
    /\ schedule.pc = "new"
    /\ schedule' =
          [schedule EXCEPT
              !.arg = network,
              !.network = NetworkOrConfigured(network, schedule.global_network),
              !.read = IF Truthy(network) THEN @
                       ELSE Append(@, schedule.global_network),
              !.pc = "_create"]
    /\ UNCHANGED <<model_utils_state, client, serving>>

\* PipelineJobSchedule._create: resolves the network once more, sets the
\* pipeline job's network only when there is one, and sends the schedule;
\* the service accepts it or refuses it.
_create(accepted) ==
    /\ schedule.pc = "_create"
    /\ LET network == NetworkOrConfigured(schedule.network,
                                          schedule.global_network)
           pipeline_job_network ==
               IF Truthy(network) THEN network
               ELSE schedule.pipeline_job_network
       IN schedule' =
             [schedule EXCEPT
                 !.network = network,
                 !.read = IF Truthy(schedule.network) THEN @
                          ELSE Append(@, schedule.global_network),
                 !.pipeline_job_network = pipeline_job_network,
                 !.sent = Some([network |-> pipeline_job_network]),
                 !.pc = IF accepted THEN "created" ELSE "failed"]
    /\ UNCHANGED <<model_utils_state, client, serving>>

InitSchedule ==
    /\ config = [staging_bucket |-> None, project |-> "proj",
                 location |-> "us-central1", credentials |-> "adc"]
    /\ wrapped = [m \in ModelObjects |-> InitiallyWrapped(m)]
    /\ store = <<>>
    /\ registry = <<>>
    /\ job = [state |-> "NOT_SUBMITTED", labels |-> <<>>,
              output_uri_prefix |-> JobDir]
    /\ callers = {"c1"}
    /\ proc = [c \in {"c1", "c2"} |-> NoCall]
    /\ ncalls = 0
    /\ uniq = 0
    /\ ledger = <<>>
    /\ schedule \in {[NoSchedule EXCEPT !.global_network = n] :
                        n \in ConfiguredNetworks}
    /\ client = NoClient
    /\ serving = NoServing

NextSchedule ==
    \/ \E n \in ConfiguredNetworks : aiplatform_init(n)
    \/ \E network \in NetworkArgs : create(network)
    \/ \E accepted \in BOOLEAN : _create(accepted)

SpecSchedule == InitSchedule /\ [][NextSchedule]_vars

(***************************************************************************)
(* SpecialistPoolServiceClient                                             *)
(***************************************************************************)
\* Calls to create_specialist_pool made on one client.
MaxRpcs == 1

\* A host name is the sequence of its dot-separated labels; "" is <<>>.
DEFAULT_ENDPOINT == <<"aiplatform", "googleapis", "com">>

\* host.replace(old, new), on labels
RECURSIVE ReplaceLabels(_, _, _)
ReplaceLabels(host, old, new) ==
    IF host = <<>> THEN <<>>
    ELSE IF StartsWith(host, old)
         THEN new \o ReplaceLabels(SubSeq(host, Len(old) + 1, Len(host)),
                                   old, new)
         ELSE <<Head(host)>> \o ReplaceLabels(Tail(host), old, new)

\* _get_default_mtls_endpoint: the pattern takes the first label as the name,
\* then an optional .mtls, an optional .sandbox and an optional
\* .googleapis.com; a host that already has .mtls, or is not of the Google
\* domain, is returned as it is.
_get_default_mtls_endpoint(api_endpoint) ==
    IF api_endpoint = <<>> THEN api_endpoint
    ELSE LET after_name == Tail(api_endpoint)
             mtls == StartsWith(after_name, <<"mtls">>)
             after_mtls == IF mtls THEN Tail(after_name) ELSE after_name
             sandbox == StartsWith(after_mtls, <<"sandbox">>)
             after_sandbox == IF sandbox THEN Tail(after_mtls) ELSE after_mtls
             googledomain == StartsWith(after_sandbox, <<"googleapis", "com">>)
         IN IF mtls \/ ~googledomain THEN api_endpoint
            ELSE IF sandbox
                 THEN <<Head(api_endpoint)>> \o
                      ReplaceLabels(after_name,
                                    <<"sandbox", "googleapis", "com">>,
                                    <<"mtls", "sandbox", "googleapis", "com">>)
                 ELSE <<Head(api_endpoint)>> \o
                      ReplaceLabels(after_name, <<"googleapis", "com">>,
                                    <<"mtls", "googleapis", "com">>)

DEFAULT_MTLS_ENDPOINT == _get_default_mtls_endpoint(DEFAULT_ENDPOINT)

\* os.getenv(name, default)
getenv(value, default) == IF value = None THEN default ELSE value[1]

\* The values GOOGLE_API_USE_CLIENT_CERTIFICATE and
\* GOOGLE_API_USE_MTLS_ENDPOINT may have in the environment (None: not set).
UseClientCertChoices == {None, Some("true"), Some("false"), Some("True")}
UseMtlsEndpointChoices ==
    {None, Some("auto"), Some("never"), Some("always"), Some("yes")}

\* client_options.api_endpoint and client_options.client_cert_source
ApiEndpointChoices == {None, Some(<<>>), Some(<<"custom", "example", "com">>)}
CertSourceChoices == {None, Some("provided")}

\* Faulty variant of use_default_mtls_endpoint: a certificate source does not
\* count.
use_default_mtls_endpoint_AlwaysOnly(use_mtls_endpoint, client_cert_source) ==
    use_mtls_endpoint = "always"

\* use_mtls_endpoint == "always" or
\*     (use_mtls_endpoint == "auto" and client_cert_source)
use_default_mtls_endpoint(use_mtls_endpoint, client_cert_source) ==
    \/ use_mtls_endpoint = "always"
    \/ /\ use_mtls_endpoint = "auto"
       /\ client_cert_source # None

\* get_mtls_endpoint_and_cert_source(client_options), in an environment with
\* the two variables and with or without a default client certificate.
get_mtls_endpoint_and_cert_source(options, env_cert, env_mtls, has_default) ==
    LET use_client_cert == getenv(env_cert, "false")
        use_mtls_endpoint == getenv(env_mtls, "auto")
        client_cert_source ==
            IF use_client_cert = "true"
            THEN IF options.client_cert_source # None
                 THEN options.client_cert_source
                 ELSE IF has_default THEN Some("default") ELSE None
            ELSE None
        api_endpoint ==
            IF options.api_endpoint # None THEN options.api_endpoint[1]
            ELSE IF use_default_mtls_endpoint(use_mtls_endpoint,
                                              client_cert_source)
                 THEN DEFAULT_MTLS_ENDPOINT
                 ELSE DEFAULT_ENDPOINT
    IN IF use_client_cert \notin {"true", "false"}
       THEN [error |-> "ValueError", api_endpoint |-> None,
             client_cert_source |-> None]
       ELSE IF use_mtls_endpoint \notin {"auto", "never", "always"}
            THEN [error |-> "MutualTLSChannelError", api_endpoint |-> None,
                  client_cert_source |-> None]
            ELSE [error |-> "", api_endpoint |-> Some(api_endpoint),
                  client_cert_source |-> client_cert_source]

\* SpecialistPoolServiceClient(client_options=...): the endpoint and the
\* certificate source are resolved and the transport is made for them.
NewClient ==
    /\ client.pc = "new"
    /\ LET resolved ==
               get_mtls_endpoint_and_cert_source(
                   client.options, client.use_client_cert,
                   client.use_mtls_endpoint, client.has_default_cert)
       IN client' =
             [client EXCEPT
                 !.pc = IF resolved.error = "" THEN "ready" ELSE "error",
                 !.error = resolved.error,
                 !.api_endpoint = resolved.api_endpoint,
                 !.client_cert_source = resolved.client_cert_source]
    /\ UNCHANGED <<model_utils_state, schedule, serving>>

\* The request argument: none, a dict, or a CreateSpecialistPoolRequest.
RequestChoices ==
    {None} \cup
    {Some([kind |-> k, parent |-> "projects/p/locations/l",
           specialist_pool |-> "pool-r"]) : k \in {"dict", "message"}}

\* The flattened arguments parent and specialist_pool (a pool is named by its
\* display name here).
ParentChoices == {None, Some(""), Some("projects/q/locations/l")}
SpecialistPoolChoices == {None, Some("pool-a")}

\* any([parent, specialist_pool])
has_flattened_params(parent, specialist_pool) ==
    Truthy(parent) \/ Truthy(specialist_pool)

\* The request create_specialist_pool sends: a CreateSpecialistPoolRequest
\* is sent as it is; anything else is copied into a new one, on which the
\* flattened arguments that are not None are then set.
CoercedRequest(request, parent, specialist_pool) ==
    IF request # None /\ request[1].kind = "message"
    THEN [parent |-> request[1].parent,
          specialist_pool |-> request[1].specialist_pool]
    ELSE LET copy == IF request = None
                     THEN [parent |-> "", specialist_pool |-> ""]
                     ELSE [parent |-> request[1].parent,
                           specialist_pool |-> request[1].specialist_pool]
         IN [parent |-> IF parent # None THEN parent[1] ELSE copy.parent,
             specialist_pool |-> IF specialist_pool # None
                                 THEN specialist_pool[1]
                                 ELSE copy.specialist_pool]

\* client.create_specialist_pool(request, parent=..., specialist_pool=...)
create_specialist_pool(request, parent, specialist_pool) ==
    /\ client.pc = "ready"
    /\ client.calls < MaxRpcs
    /\ IF request # None /\ has_flattened_params(parent, specialist_pool)
       THEN client' =
               [client EXCEPT
                   !.calls = @ + 1,
                   !.call = [request |-> request, parent |-> parent,
                             specialist_pool |-> specialist_pool,
                             error |-> "ValueError", rpc |-> None]]
       ELSE LET rpc == CoercedRequest(request, parent, specialist_pool)
            IN client' =
                  [client EXCEPT
                      !.calls = @ + 1,
                      !.sent = Append(@, rpc),
                      !.call = [request |-> request, parent |-> parent,
                                specialist_pool |-> specialist_pool,
                                error |-> "", rpc |-> Some(rpc)]]
    /\ UNCHANGED <<model_utils_state, schedule, serving>>

InitClient ==
    /\ config = [staging_bucket |-> None, project |-> "proj",
                 location |-> "us-central1", credentials |-> "adc"]
    /\ wrapped = [m \in ModelObjects |-> InitiallyWrapped(m)]
    /\ store = <<>>
    /\ registry = <<>>
    /\ job = [state |-> "NOT_SUBMITTED", labels |-> <<>>,
              output_uri_prefix |-> JobDir]
    /\ callers = {"c1"}
    /\ proc = [c \in {"c1", "c2"} |-> NoCall]
    /\ ncalls = 0
    /\ uniq = 0
    /\ ledger = <<>>
    /\ schedule = NoSchedule
    /\ \E env_cert \in UseClientCertChoices,
          env_mtls \in UseMtlsEndpointChoices,
          has_default \in BOOLEAN,
          api_endpoint \in ApiEndpointChoices,
          cert_source \in CertSourceChoices :
          client = [NoClient EXCEPT
                       !.use_client_cert = env_cert,
                       !.use_mtls_endpoint = env_mtls,
                       !.has_default_cert = has_default,
                       !.options = [api_endpoint |-> api_endpoint,
                                    client_cert_source |-> cert_source]]
    /\ serving = NoServing

NextClient ==
    \/ NewClient
    \/ \E request \in RequestChoices, parent \in ParentChoices,
          specialist_pool \in SpecialistPoolChoices :
          create_specialist_pool(request, parent, specialist_pool)

SpecClient == InitClient /\ [][NextClient]_vars

(***************************************************************************)
(* Endpoints and a deployment resource pool                                *)
(***************************************************************************)
\* Deployments made in one run.
MaxDeploys == 2

\* The models the service holds for deployment.
ServedModels == {"mnist", "other"}

\* The deployed models of endpoint e, as the service lists them: their ids
\* in the order of deployment.
RECURSIVE DeployedIds(_, _, _)
DeployedIds(deployed, e, from) ==
    IF from > MaxDeploys THEN <<>>
    ELSE (IF \E d \in deployed : d.id = from /\ d.endpoint = e
          THEN <<from>> ELSE <<>>) \o DeployedIds(deployed, e, from + 1)

\* drp.query_deployed_models(): the deployed models that use the pool.
query_deployed_models == {d \in serving.deployed : d.pool}

\* Faulty variant of AfterUndeploy: the service keeps the deployed model.
AfterUndeploy_Kept(deployed, e, id) == deployed

\* What the service holds once deployed model id is undeployed from e.
AfterUndeploy(deployed, e, id) ==
    {d \in deployed : ~(d.endpoint = e /\ d.id = id)}

\* models.DeploymentResourcePool.create(deployment_resource_pool_id=...)
CreatePool ==
    /\ ~serving.pool
    /\ serving' = [serving EXCEPT !.pool = TRUE]
    /\ UNCHANGED <<model_utils_state, schedule, client>>

\* aiplatform.Endpoint.create(display_name=...)
CreateEndpoint(e) ==
    /\ e \notin serving.endpoints
    /\ serving' = [serving EXCEPT !.endpoints = @ \cup {e}]
    /\ UNCHANGED <<model_utils_state, schedule, client>>

\* endpoint.deploy(model=m, deployment_resource_pool=drp), or
\* endpoint.deploy(model=m) on resources of its own: the service gives the
\* deployed model an id, and the endpoint object is refreshed.
Deploy(e, m, with_pool) ==
    /\ with_pool => serving.pool
    /\ e \in serving.endpoints
    /\ serving.next_id <= MaxDeploys
    /\ LET id == serving.next_id
           deployed == serving.deployed \cup
                       {[id |-> id, endpoint |-> e, model |-> m,
                         pool |-> with_pool]}
       IN serving' =
             [serving EXCEPT
                 !.deployed = deployed,
                 !.next_id = id + 1,
                 !.local[e] = DeployedIds(deployed, e, 1),
                 !.last[e] = <<"deploy", id, with_pool>>]
    /\ UNCHANGED <<model_utils_state, schedule, client>>

\* endpoint.undeploy(deployed_model_id=endpoint.list_models()[0].id): the
\* service drops the deployed model, and the endpoint object is refreshed.
Undeploy(e) ==
    /\ e \in serving.endpoints
    /\ DeployedIds(serving.deployed, e, 1) # <<>>
    /\ LET id == DeployedIds(serving.deployed, e, 1)[1]
           deployed == AfterUndeploy(serving.deployed, e, id)
           with_pool == \E d \in serving.deployed : d.id = id /\ d.pool
       IN serving' =
             [serving EXCEPT
                 !.deployed = deployed,
                 !.local[e] = DeployedIds(deployed, e, 1),
                 !.last[e] = <<"undeploy", id, with_pool>>]
    /\ UNCHANGED <<model_utils_state, schedule, client>>

InitServing ==
    /\ config = [staging_bucket |-> None, project |-> "proj",
                 location |-> "us-central1", credentials |-> "adc"]
    /\ wrapped = [m \in ModelObjects |-> InitiallyWrapped(m)]
    /\ store = <<>>
    /\ registry = <<>>
    /\ job = [state |-> "NOT_SUBMITTED", labels |-> <<>>,
              output_uri_prefix |-> JobDir]
    /\ callers = {"c1"}
    /\ proc = [c \in {"c1", "c2"} |-> NoCall]
    /\ ncalls = 0
    /\ uniq = 0
    /\ ledger = <<>>
    /\ schedule = NoSchedule
    /\ client = NoClient
    /\ serving = NoServing

NextServing ==
    \/ CreatePool
    \/ \E e \in Endpoints : CreateEndpoint(e)
    \/ \E e \in Endpoints, m \in ServedModels, with_pool \in BOOLEAN :
          Deploy(e, m, with_pool)
    \/ \E e \in Endpoints : Undeploy(e)

SpecServing == InitServing /\ [][NextServing]_vars

(***************************************************************************)
(* Properties                                                              *)
(***************************************************************************)
Done(c) == proc[c].pc = "done"

Took(c, event) == Count(proc[c].trace, event) > 0

\* A from_pretrained(model_name=...) call that has fetched a model resource.
Fetched(c) ==
    /\ proc[c].op = "from_pretrained"
    /\ proc[c].vertex_model \in ModelIds

\* What from_pretrained returns for a model register made: the content
\* register serialized, with the serialized rewrapper applied.
Reloaded(entry) ==
    [NoContent EXCEPT !.kind = "model", !.obj = entry.model,
                      !.fmt = IF entry.framework = "tensorflow" THEN "tf" ELSE "",
                      !.wrapped = entry.rewrapper.wrapped]

\* C1 as stated: from_pretrained(model_name=<a model register made>) reads
\* the model from exactly the path register wrote the model to and the
\* rewrapper from exactly the path register wrote the rewrapper to, and
\* returns the registered content with the rewrapper applied.
C1_RoundTripExactPaths ==
    \A c \in callers :
        (Fetched(c) /\ proc[c].vertex_model \in DOMAIN ledger) =>
            LET entry == ledger[proc[c].vertex_model] IN
            /\ proc[c].model_path = entry.written[2]
            /\ proc[c].rewrapper_path = entry.written[1]
            /\ proc[c].result # None => proc[c].result = Some(Reloaded(entry))

\* C1 amended: the rewrapper is read from exactly the path it was written
\* to; the model is read from exactly the path it was written to for
\* sklearn and pytorch, and for tensorflow from that path followed by "/"
\* (os.path.join(artifact_uri, "")), the same saved_model directory; the
\* call fails only if a deserialization fails, and the model returned is
\* the registered content with the rewrapper applied.
C1_RoundTrip ==
    \A c \in callers :
        (Fetched(c) /\ proc[c].vertex_model \in DOMAIN ledger) =>
            LET entry == ledger[proc[c].vertex_model] IN
            /\ proc[c].model_path =
                  IF entry.framework = "tensorflow"
                  THEN entry.written[2] \o <<"">>
                  ELSE entry.written[2]
            /\ proc[c].rewrapper_path = entry.written[1]
            /\ \A i \in 1..Len(proc[c].read) :
                  proc[c].read[i] \in {proc[c].model_path, proc[c].rewrapper_path}
            /\ proc[c].result # None => proc[c].result = Some(Reloaded(entry))
            /\ Done(c) => proc[c].error \in {"", "DeserializationFailure"}

\* C1 witness: a tensorflow model made by register has come back from
\* from_pretrained, wrapped again.
C1_Witness ==
    \E c \in callers :
        /\ Fetched(c) /\ Done(c)
        /\ proc[c].vertex_model \in DOMAIN ledger
        /\ ledger[proc[c].vertex_model].framework = "tensorflow"
        /\ proc[c].result # None
        /\ proc[c].result[1].wrapped
        /\ Len(proc[c].read) = 2

\* C2: once register has detached the wrapper, the rewrapper is applied
\* exactly once before register exits, on every exit path.
C2_RewrapOnEveryExit ==
    \A c \in callers :
        (proc[c].op = "register" /\ Done(c) /\ Took(c, "unwrap")) =>
            Count(proc[c].trace, "rewrap") = 1

\* C3: from_pretrained with zero, two or three non-null arguments fails with
\* the argument error before anything is fetched or deserialized.
C3_ArgumentError ==
    \A c \in callers :
        (proc[c].op = "from_pretrained" /\ PassedArgs(proc[c].args) # 1) =>
            /\ Done(c)
            /\ proc[c].error = "ArgumentError"
            /\ proc[c].result = None
            /\ proc[c].trace = <<>>
            /\ proc[c].read = <<>>

\* C3 witness: a call with two arguments has failed.
C3_Witness ==
    \E c \in callers :
        /\ proc[c].op = "from_pretrained"
        /\ PassedArgs(proc[c].args) = 2
        /\ proc[c].error = "ArgumentError"

\* C4: register (with a staging bucket) on a model that matches no framework
\* rule fails with the unsupported-framework error, serializes and uploads
\* nothing, and applies the rewrapper exactly once, leaving the model wrapped
\* as it was.
C4_UnsupportedFramework ==
    \A c \in callers :
        (/\ proc[c].op = "register" /\ Done(c)
         /\ DetectFramework(proc[c].model) = ""
         /\ proc[c].error # "ConfigurationError") =>
            /\ proc[c].error = "UnsupportedFrameworkError"
            /\ proc[c].written = <<>>
            /\ ~Took(c, "upload")
            /\ Count(proc[c].trace, "rewrap") = 1
            /\ wrapped[proc[c].model] = InitiallyWrapped(proc[c].model)

\* C5: register with no staging bucket configured fails with the
\* configuration error in its first step, which detaches no wrapper, writes
\* nothing and uploads nothing.
C5_NoStagingBucket ==
    [][\A c \in callers :
          (/\ proc'[c] # proc[c]
           /\ proc'[c].op = "register"
           /\ ~TruthyPath(config.staging_bucket)) =>
                /\ proc'[c].pc = "done"
                /\ proc'[c].error = "ConfigurationError"
                /\ proc'[c].trace = <<>>
                /\ wrapped' = wrapped
                /\ store' = store
                /\ registry' = registry]_vars

\* C5 witness: register has failed for want of a staging bucket.
C5_Witness ==
    \E c \in callers :
        /\ proc[c].op = "register" /\ Done(c)
        /\ config.staging_bucket = None
        /\ proc[c].error = "ConfigurationError"

\* C6: from_pretrained(custom_job_name=...) that found the job pending and
\* polled decides on the state the service reports after the poll: on
\* SUCCEEDED it goes on to the job's output directory and returns the
\* estimator found there, rewrapped; on FAILED it fails with the
\* job-not-succeeded error and reads nothing.
C6_DecisionAfterPoll ==
    \A c \in callers :
        (proc[c].op = "from_pretrained" /\ Len(proc[c].observed) = 2) =>
            /\ proc[c].observed[1] \in _JOB_PENDING_STATES
            /\ proc[c].observed[2] = "SUCCEEDED" =>
                  /\ proc[c].error \in {"", "DeserializationFailure"}
                  /\ proc[c].model_path =
                        <<"gs://jobs", "job-1", "output", "output_estimator">>
                  /\ proc[c].rewrapper_path =
                        <<"gs://jobs", "job-1", "output", "rewrapper">>
                  /\ (Done(c) /\ proc[c].error = "") =>
                        proc[c].result =
                            Some([TrainedEstimator EXCEPT !.wrapped = TRUE])
            /\ proc[c].observed[2] = "FAILED" =>
                  /\ Done(c)
                  /\ proc[c].error = "JobNotSucceededError"
                  /\ proc[c].result = None
                  /\ proc[c].read = <<>>

\* C6 witness: a job seen RUNNING, then SUCCEEDED after the poll, has given
\* its model.
C6_Witness ==
    \E c \in callers :
        /\ Done(c)
        /\ proc[c].observed = <<"RUNNING", "SUCCEEDED">>
        /\ proc[c].result # None
        /\ Len(proc[c].read) = 2

\* C7: from_pretrained(custom_job_name=...) on a job whose label
\* trained_by_vertex_ai is not exactly "true" fails with the unverified-job
\* error, in whatever state the job is, without polling or deserializing.
C7_UnverifiedJob ==
    \A c \in callers :
        (/\ proc[c].op = "from_pretrained"
         /\ Took(c, "fetch_job")
         /\ proc[c].error # "NotFound"
         /\ labels_get(job.labels, "trained_by_vertex_ai") # Some(S_true)) =>
            /\ Done(c)
            /\ proc[c].error = "UnverifiedJobError"
            /\ proc[c].result = None
            /\ ~Took(c, "poll")
            /\ ~Took(c, "deserialize_model")
            /\ proc[c].read = <<>>

\* C7 witness: a job that SUCCEEDED but carries the label value "True" has
\* been refused.
C7_Witness ==
    \E c \in callers :
        /\ Done(c)
        /\ proc[c].error = "UnverifiedJobError"
        /\ job.state = "SUCCEEDED"
        /\ labels_get(job.labels, "trained_by_vertex_ai") = Some(<<"T","r","u","e">>)

\* The fetched resource carries registered_by_vertex_ai=true.
HasRegisteredLabel(c) ==
    labels_get(ModelResource(proc[c].vertex_model).labels,
               "registered_by_vertex_ai") = Some(S_true)

\* A label value of the fetched resource matches the tuned-model-id pattern.
HasTunedIdLabel(c) ==
    LET labels == ModelResource(proc[c].vertex_model).labels IN
    \E i \in 1..Len(labels) : TunedIdMatch(labels[i][2])

\* C8: from_pretrained(model_name=...) on a model without labels fails with
\* the not-registered error; on a model with labels, none of them
\* registered_by_vertex_ai=true and none with a value matching the
\* tuned-model-id pattern, it fails with the not-from-Model-Garden error.
\* Nothing is deserialized in either case.
C8_LabelErrors ==
    \A c \in callers :
        (Fetched(c) /\ Done(c)) =>
            LET labels == ModelResource(proc[c].vertex_model).labels IN
            /\ labels = <<>> =>
                  /\ proc[c].error = "NotRegisteredError"
                  /\ proc[c].result = None
                  /\ ~Took(c, "deserialize_model")
            /\ (labels # <<>> /\ ~HasRegisteredLabel(c) /\ ~HasTunedIdLabel(c)) =>
                  /\ proc[c].error = "NotFromModelGardenError"
                  /\ proc[c].result = None
                  /\ ~Took(c, "deserialize_model")

\* C8 witness: a model whose label values only come close to the pattern
\* has been refused as not from Model Garden.
C8_Witness ==
    \E c \in callers :
        /\ Fetched(c) /\ Done(c)
        /\ proc[c].vertex_model = "near-miss"
        /\ proc[c].error = "NotFromModelGardenError"

\* C9: every model resource register has uploaded carries the label
\* registered_by_vertex_ai=true.
C9_RegisteredLabel ==
    \A id \in DOMAIN ledger :
        labels_get(registry[id].labels, "registered_by_vertex_ai") = Some(S_true)

\* C9 witness: a tensorflow model has been uploaded with use_gpu set.
C9_Witness ==
    \E id \in DOMAIN ledger :
        ledger[id].framework = "tensorflow" /\ ledger[id].use_gpu

Dispatched(c) ==
    /\ proc[c].op = "register"
    /\ proc[c].framework # "" \/ proc[c].error = "UnsupportedFrameworkError"

\* The classification by module-path prefixes and capabilities, first match
\* in the order sklearn, tensorflow, pytorch; "" is unsupported.
PrefixFramework(m) ==
    IF StartsWith(module_of(m), S_sklearn) THEN "sklearn"
    ELSE IF StartsWith(module_of(m), S_keras) \/ hasattr(m, "_tracking_metadata")
         THEN "tensorflow"
    ELSE IF StartsWith(module_of(m), S_torch) \/ hasattr(m, "state_dict")
         THEN "pytorch"
    ELSE ""

\* C11: register classifies a model sklearn on module prefix "sklearn",
\* tensorflow on module prefix "keras" or the tracking-metadata attribute,
\* pytorch on module prefix "torch" or a state_dict, first match deciding, and
\* rejects anything else as unsupported.
C11_DetectionByPrefix ==
    \A c \in callers :
        Dispatched(c) => proc[c].framework = PrefixFramework(proc[c].model)

RegisteredName(framework, n) ==
    "vertex-ai-registered-" \o framework \o "-model-" \o ToString(n)

\* path lies inside directory dir
Under(path, dir) ==
    /\ Len(path) >= Len(dir)
    /\ SubSeq(path, 1, Len(dir)) = dir

\* C13: a model register uploaded for framework F is named
\* vertex-ai-registered-F-model-<suffix>, and its artifact URI lies under
\* <staging bucket>/vertex-ai-registered-F-model-<suffix>, same suffix.
C13_NameAndDirectoryAgree ==
    \A id \in DOMAIN ledger :
        \E n \in 1..MaxCalls :
            /\ registry[id].display_name = RegisteredName(ledger[id].framework, n)
            /\ Under(registry[id].uri,
                     StorePath(config.staging_bucket[1])
                        \o <<RegisteredName(ledger[id].framework, n)>>)
            /\ \A i \in 1..Len(ledger[id].written) :
                  Under(ledger[id].written[i],
                        StorePath(config.staging_bucket[1])
                           \o <<RegisteredName(ledger[id].framework, n)>>)

\* C13 witness: two models are registered in one run, the second a sklearn
\* model, under a staging bucket written with a trailing "/".
C13_Witness ==
    /\ config.staging_bucket = Some(<<"gs://bucket", "">>)
    /\ \E id \in DOMAIN ledger :
          /\ ledger[id].framework = "sklearn"
          /\ registry[id].display_name = "vertex-ai-registered-sklearn-model-2"
          /\ registry[id].uri =
                <<"gs://bucket", "vertex-ai-registered-sklearn-model-2">>

\* A from_pretrained(foundation_model_name=n) call that has asked Model
\* Garden for its publisher model.
AskedFoundation(c) ==
    /\ proc[c].op = "from_pretrained"
    /\ proc[c].args.model_name = None
    /\ proc[c].args.custom_job_name = None
    /\ Took(c, "resolve_publisher")

\* C14: from_pretrained(foundation_model_name=n) asks for the resource
\* "publishers/google/models/" + n when n has no "/" and for n when it has
\* one; when that resolution fails, whatever the failure, the caller gets
\* the invalid-Model-Garden-reference error and no handle is built.
C14_FoundationResolution ==
    \A c \in callers :
        AskedFoundation(c) =>
            LET n == proc[c].args.foundation_model_name[1] IN
            /\ proc[c].requested =
                  << IF \E i \in 1..Len(n) : n[i] = "/"
                     THEN n
                     ELSE <<"p","u","b","l","i","s","h","e","r","s","/",
                            "g","o","o","g","l","e","/",
                            "m","o","d","e","l","s","/">> \o n >>
            /\ Took(c, "resolution_failed") =>
                  /\ Done(c)
                  /\ proc[c].error = "InvalidModelGardenReferenceError"
                  /\ proc[c].result = None
                  /\ ~Took(c, "build_handle")

\* C14 witness: the full resource name of an existing publisher model was
\* asked for, unchanged, and the resolution failed.
C14_Witness ==
    \E c \in callers :
        /\ AskedFoundation(c) /\ Done(c)
        /\ proc[c].args.foundation_model_name =
              Some(S_publishers_google_models \o S_text_bison_at_001)
        /\ Took(c, "resolution_failed")
        /\ proc[c].error = "InvalidModelGardenReferenceError"

\* The short model ids of the labels whose value matches the tuned-model-id
\* pattern, in label order.
CandidateIds(labels) ==
    LET sel == SelectSeq(labels, LAMBDA l : TunedIdMatch(l[2])) IN
    [i \in 1..Len(sel) |-> _get_model_id_from_tuning_model_id(sel[i][2])]

IsPrefix(a, b) == Len(a) <= Len(b) /\ SubSeq(b, 1, Len(a)) = a

\* A from_pretrained(model_name=...) call on a resource with labels, none of
\* them registered_by_vertex_ai=true.
Scanning(c) ==
    /\ Fetched(c)
    /\ ~HasRegisteredLabel(c)
    /\ ModelResource(proc[c].vertex_model).labels # <<>>

\* C15 as stated: the candidates are tried in label order; no failure to
\* resolve the publisher model or to build the handle aborts the call; the
\* handle of the first candidate that succeeds is returned, and if none
\* succeeds the call fails with the not-from-Model-Garden error.
C15_ScanNeverAborts ==
    \A c \in callers :
        Scanning(c) =>
            LET ids == CandidateIds(ModelResource(proc[c].vertex_model).labels)
                k == Len(proc[c].requested) IN
            /\ IsPrefix(proc[c].requested, ids)
            /\ Done(c) =>
                  \/ /\ k >= 1 /\ proc[c].error = ""
                     /\ proc[c].result = Some(GardenHandle(ids[k]))
                  \/ /\ proc[c].requested = ids
                     /\ proc[c].error = "NotFromModelGardenError"
                     /\ proc[c].result = None

\* C15 amended: the candidates are tried in label order; a failure to
\* resolve the publisher model, or a ValueError raised while the handle is
\* built, moves on to the next candidate; any other exception raised while
\* the handle is built ends the call with that exception; the handle of the
\* first candidate that succeeds is returned, and if every candidate was
\* tried and none succeeded the call fails with the not-from-Model-Garden
\* error.
C15_ScanContinuesOnValueError ==
    \A c \in callers :
        Scanning(c) =>
            LET ids == CandidateIds(ModelResource(proc[c].vertex_model).labels)
                k == Len(proc[c].requested) IN
            /\ IsPrefix(proc[c].requested, ids)
            /\ Count(proc[c].trace, "resolve_publisher") = k
            /\ Done(c) =>
                  \/ /\ k >= 1 /\ proc[c].error = ""
                     /\ proc[c].result = Some(GardenHandle(ids[k]))
                  \/ /\ proc[c].requested = ids
                     /\ proc[c].error = "NotFromModelGardenError"
                     /\ proc[c].result = None
                  \/ /\ k >= 1 /\ proc[c].error = "ModelGardenFailure"
                     /\ proc[c].result = None
                     /\ Count(proc[c].trace, "build_handle") >= 1

\* C15 witness: the first candidate failed to resolve and the second gave
\* the handle.
C15_Witness ==
    \E c \in callers :
        /\ Scanning(c) /\ Done(c)
        /\ proc[c].vertex_model = "tuned-two"
        /\ Len(proc[c].requested) = 2
        /\ Took(c, "resolution_failed")
        /\ proc[c].result # None

\* A register call whose Model.upload call has failed.
UploadFailed(c) ==
    /\ proc[c].op = "register"
    /\ Took(c, "upload")
    /\ proc[c].result = None

\* C16: when Model.upload fails inside register, the caller gets that same
\* failure, and by then the rewrapper has been applied to the model, once,
\* as the last thing register did: the model carries the wrapper register
\* detached, and no resource was registered for the call.
C16_UploadFailureUnchanged ==
    \A c \in callers :
        (UploadFailed(c) /\ Done(c)) =>
            /\ proc[c].error = "UploadFailure"
            /\ Count(proc[c].trace, "rewrap") = 1
            /\ proc[c].trace[Len(proc[c].trace)] = "rewrap"
            /\ wrapped[proc[c].model] = proc[c].rewrapper.wrapped
            /\ proc[c].vertex_model = ""
            /\ \A id \in DOMAIN ledger :
                  registry[id].display_name # proc[c].unique_model_name

\* C16 witness: the upload of a wrapped pytorch model has failed and the
\* failure has reached the caller.
C16_Witness ==
    \E c \in callers :
        /\ UploadFailed(c) /\ Done(c)
        /\ proc[c].framework = "pytorch"
        /\ wrapped[proc[c].model]
        /\ proc[c].error = "UploadFailure"

\* The states a job does not leave.
TerminalStates == {"SUCCEEDED", "FAILED", "CANCELLED"}

\* C17: a from_pretrained(custom_job_name=...) call that waits for a pending
\* job does not leave the wait while the job is pending, and once the job is
\* in a terminal state the call ends, with a model or with an error.
C17_JobPathLiveness ==
    /\ [][\A c \in callers :
            (proc[c].pc = "poll" /\ job.state \in _JOB_PENDING_STATES) =>
                proc'[c].pc = "poll"]_vars
    /\ \A c \in {"c1", "c2"} :
          (proc[c].pc = "poll" /\ job.state \in TerminalStates) ~> Done(c)

\* C17 witness: a call that waited for the job has ended after the job
\* failed.
C17_Witness ==
    \E c \in callers :
        /\ Took(c, "poll") /\ Done(c)
        /\ job.state = "FAILED"
        /\ proc[c].error = "JobNotSucceededError"

\* C18: a register call creates at most one resource in the Model Registry,
\* and exactly one when it returns a model; the registry changes only by
\* such a creation; no step of a from_pretrained call writes to the
\* registry, the artifact store or the job.
C18_OneRegistryWrite ==
    /\ [](\A c \in callers :
            /\ proc[c].op = "register" => proc[c].writes <= 1
            /\ (proc[c].op = "register" /\ Done(c) /\ proc[c].result # None) =>
                  /\ proc[c].writes = 1
                  /\ proc[c].result[1].obj \in DOMAIN registry
            /\ (proc[c].op = "register" /\ Done(c) /\ proc[c].result = None) =>
                  proc[c].writes = 0
            /\ proc[c].op = "from_pretrained" => proc[c].writes = 0)
    /\ [][/\ registry' # registry =>
               /\ \E c \in callers :
                     /\ proc[c].op = "register"
                     /\ proc'[c].writes = proc[c].writes + 1
               /\ Cardinality(DOMAIN registry') = Cardinality(DOMAIN registry) + 1
               /\ \A id \in DOMAIN registry :
                     id \in DOMAIN registry' /\ registry'[id] = registry[id]
          /\ \A c \in callers :
               (proc[c].op = "from_pretrained" /\ proc'[c] # proc[c]
                  /\ proc'[c].op = "from_pretrained") =>
                     /\ registry' = registry
                     /\ store' = store
                     /\ job' = job]_vars

\* C18 witness: a register call has returned its model, and a from_pretrained
\* call has then loaded it.
C18_Witness ==
    \E c \in callers :
        /\ proc[c].op = "from_pretrained" /\ Done(c)
        /\ proc[c].vertex_model \in DOMAIN registry
        /\ proc[c].result # None
        /\ Cardinality(DOMAIN registry) = 1

\* C19: no step of register or from_pretrained, successful or failing,
\* changes the global configuration (staging bucket, project, location,
\* credentials).
C19_ConfigUnchanged ==
    [][/\ config'.staging_bucket = config.staging_bucket
       /\ config'.project = config.project
       /\ config'.location = config.location
       /\ config'.credentials = config.credentials]_vars

\* C19 witness: a second call, a register call that read the staging bucket
\* and whose upload failed, has ended.
C19_Witness ==
    \E c \in callers :
        /\ ncalls = 2
        /\ proc[c].op = "register" /\ Done(c)
        /\ config.staging_bucket = Some(proc[c].staging_bucket)
        /\ proc[c].error = "UploadFailure"

\* C20: for every model register uploaded, the model was written inside the
\* registration's staging subdirectory, as file model.pkl for sklearn, as
\* directory saved_model with save format "tf" for tensorflow, as file
\* model.mar for pytorch; the rewrapper was written as the file rewrapper
\* directly inside the artifact URI recorded on the resource, which for
\* tensorflow is the saved_model directory.
C20_ArtifactLayout ==
    \A id \in DOMAIN ledger :
        LET framework == ledger[id].framework
            subdir == StorePath(config.staging_bucket[1])
                        \o <<registry[id].display_name>>
            model_path == ledger[id].written[2]
            rewrapper_path == ledger[id].written[1] IN
        /\ Len(ledger[id].written) = 2
        /\ model_path =
              subdir \o (CASE framework = "sklearn" -> <<"model.pkl">>
                           [] framework = "tensorflow" -> <<"saved_model">>
                           [] framework = "pytorch" -> <<"model.mar">>)
        /\ model_path \in DOMAIN store
        /\ store[model_path].kind = "model"
        /\ store[model_path].fmt = "tf" <=> framework = "tensorflow"
        /\ rewrapper_path = registry[id].uri \o <<"rewrapper">>
        /\ rewrapper_path \in DOMAIN store
        /\ store[rewrapper_path].kind = "rewrapper"
        /\ framework = "tensorflow" => registry[id].uri = model_path
        /\ framework # "tensorflow" => registry[id].uri = subdir

\* C20 witness: a tensorflow model has been registered, its rewrapper nested
\* in the saved_model directory.
C20_Witness ==
    \E id \in DOMAIN ledger :
        /\ ledger[id].framework = "tensorflow"
        /\ ledger[id].written[1] =
              <<"gs://bucket", registry[id].display_name, "saved_model",
                "rewrapper">>
        /\ ledger[id].written[1] \in DOMAIN store

\* text s has the characters of sub in a row somewhere
HasText(s, sub) ==
    \E i \in 1..Len(s) :
        /\ i + Len(sub) - 1 <= Len(s)
        /\ \A k \in 1..Len(sub) : s[i + k - 1] = sub[k]

\* C21: from_pretrained(model_name=<a resource with
\* registered_by_vertex_ai=true>) reads the model from the artifact URI
\* joined with "" for a tf image, with "model.pkl" for an sklearn image and
\* with "model.mar" for a pytorch image; for any other image it fails with
\* the unsupported-framework error and deserializes nothing; and for a
\* resource register made for framework F the name is the one register
\* wrote the model under, relative to the artifact URI.
C21_ModelFileFromImage ==
    \A c \in callers :
        (Fetched(c) /\ HasRegisteredLabel(c)) =>
            LET resource == ModelResource(proc[c].vertex_model)
                image == resource.image_uri
                dir == IF resource.uri[Len(resource.uri)] = ""
                       THEN SubSeq(resource.uri, 1, Len(resource.uri) - 1)
                       ELSE resource.uri IN
            /\ HasText(image, <<"t","f">>) =>
                  proc[c].model_path = dir \o <<"">>
            /\ (~HasText(image, <<"t","f">>)
                  /\ HasText(image, <<"s","k","l","e","a","r","n">>)) =>
                  proc[c].model_path = dir \o <<"model.pkl">>
            /\ (~HasText(image, <<"t","f">>)
                  /\ ~HasText(image, <<"s","k","l","e","a","r","n">>)
                  /\ HasText(image, <<"p","y","t","o","r","c","h">>)) =>
                  proc[c].model_path = dir \o <<"model.mar">>
            /\ (~HasText(image, <<"t","f">>)
                  /\ ~HasText(image, <<"s","k","l","e","a","r","n">>)
                  /\ ~HasText(image, <<"p","y","t","o","r","c","h">>)) =>
                  /\ Done(c)
                  /\ proc[c].error = "UnsupportedFrameworkError"
                  /\ proc[c].result = None
                  /\ ~Took(c, "deserialize_model")
                  /\ proc[c].read = <<>>
            /\ proc[c].vertex_model \in DOMAIN ledger =>
                  proc[c].model_path =
                     dir \o (CASE ledger[proc[c].vertex_model].framework = "sklearn"
                                    -> <<"model.pkl">>
                               [] ledger[proc[c].vertex_model].framework = "tensorflow"
                                    -> <<"">>
                               [] ledger[proc[c].vertex_model].framework = "pytorch"
                                    -> <<"model.mar">>)

\* C21 witness: a labelled resource with an image of no known framework has
\* been refused, and in the same run a pytorch model made by register with
\* use_gpu exists.
C21_Witness ==
    \E c \in callers :
        /\ Fetched(c) /\ Done(c)
        /\ proc[c].vertex_model = "custom-image"
        /\ proc[c].error = "UnsupportedFrameworkError"
        /\ \E id \in DOMAIN ledger :
              ledger[id].framework = "pytorch" /\ ledger[id].use_gpu

\* C22: with two register calls running at the same time, no model is
\* serialized in wrapped form, and once every call has ended every model is
\* wrapped as it was before (calls that ended because the serializer could
\* not be constructed are left aside: they are the subject of C2).
C22_CriticalSection ==
    /\ \A path \in DOMAIN store :
          store[path].kind = "model" => ~store[path].wrapped
    /\ (\A c \in callers :
            /\ Done(c)
            /\ proc[c].error # "SerializerInitFailure") =>
          \A m \in ModelObjects : wrapped[m] = InitiallyWrapped(m)

\* The configured networks a call read, in order, that name a network.
ConfiguredSeen == SelectSeq(schedule.read, LAMBDA n : Truthy(n))

\* C23: the schedule that create submits carries, as its pipeline job's
\* network, the network argument when one is given; otherwise the network
\* the process-wide configuration named when the call consulted it; and when
\* neither names a network, the field is left unset.
C23_ScheduleNetwork ==
    schedule.sent # None =>
        LET submitted == schedule.sent[1].network
        IN /\ Truthy(schedule.arg) => submitted = schedule.arg
           /\ (~Truthy(schedule.arg) /\ ConfiguredSeen # <<>>) =>
                 submitted = ConfiguredSeen[1]
           /\ (~Truthy(schedule.arg) /\ ConfiguredSeen = <<>>) =>
                 submitted = None
           /\ (~Truthy(schedule.arg) /\ schedule.inits = 0) =>
                 submitted = schedule.global_network

\* An empty network argument, a configured network: the schedule is sent
\* with the configured one.
C23_Witness ==
    /\ schedule.sent = Some([network |-> Some("net-b")])
    /\ schedule.arg = Some("")
    /\ schedule.global_network = Some("net-b")
    /\ schedule.pc = "created"

C30_RequestOrFlattened ==
    client.call # <<>> =>
        LET call == client.call
        IN /\ (/\ call.request # None
               /\ \/ call.parent # None
                  \/ call.specialist_pool # None) =>
                 /\ call.error = "ValueError"
                 /\ call.rpc = None
           /\ call.request = None =>
                 /\ call.error = ""
                 /\ call.rpc # None
                 /\ call.parent # None =>
                       call.rpc[1].parent = call.parent[1]
                 /\ call.specialist_pool # None =>
                       call.rpc[1].specialist_pool = call.specialist_pool[1]
                 /\ call.parent = None => call.rpc[1].parent = ""
                 /\ call.specialist_pool = None =>
                       call.rpc[1].specialist_pool = ""

\* The deployments that use the pool and were made through endpoint e.
PoolDeployments(e) == {d \in query_deployed_models : d.endpoint = e}

LastObserved(c) == proc[c].observed[Len(proc[c].observed)]

\* C26: from_pretrained(custom_job_name=...) deserializes the job output and
\* returns a model only if the job state it observed last is SUCCEEDED;
\* every other state observed after polling, a still-pending one included,
\* ends in the job-not-succeeded error; and a job that is not pending when
\* fetched is never polled.
C26_JobStateMachine ==
    \A c \in callers :
        (proc[c].op = "from_pretrained" /\ proc[c].observed # <<>>) =>
            /\ (\/ proc[c].result # None
                \/ Took(c, "deserialize_model")
                \/ proc[c].read # <<>>) =>
                  LastObserved(c) = "SUCCEEDED"
            /\ (Len(proc[c].observed) = 2 /\ LastObserved(c) # "SUCCEEDED") =>
                  /\ Took(c, "poll")
                  /\ Done(c)
                  /\ proc[c].error = "JobNotSucceededError"
                  /\ proc[c].result = None
            /\ proc[c].observed[1] \notin _JOB_PENDING_STATES =>
                  /\ ~Took(c, "poll")
                  /\ Len(proc[c].observed) = 1
            /\ Len(proc[c].observed) <= 2

\* A job seen RUNNING when fetched and pending again after the poll returned:
\* the call has ended in the job-not-succeeded error.
C26_Witness ==
    \E c \in callers :
        /\ Done(c)
        /\ Took(c, "poll")
        /\ proc[c].observed[1] = "RUNNING"
        /\ Len(proc[c].observed) = 2
        /\ proc[c].observed[2] = "RUNNING"
        /\ proc[c].error = "JobNotSucceededError"

\* The artifact root of the resource a call loads from: the artifact uri of
\* the registered model, or the output directory of the training job.
ArtifactRoot(c) ==
    StorePath(IF Took(c, "fetch_model")
              THEN ModelResource(proc[c].vertex_model).uri
              ELSE <<"gs://jobs", "job-1", "output">>)

\* Calls that went down the registered-model path or the training-job path
\* as far as deserializing.
Deserializing(c) ==
    /\ proc[c].op = "from_pretrained"
    /\ Took(c, "deserialize_model")

\* C27: a model that from_pretrained returns through the registered-model
\* path or the training-job path has had the rewrapper applied to it exactly
\* once before the return, and that rewrapper was deserialized from the
\* artifact root the model was deserialized from; when deserializing the
\* model or the rewrapper fails, no model is returned.
C27_RewrappedOnce ==
    \A c \in callers :
        (Deserializing(c) /\ Done(c)) =>
            /\ proc[c].result # None =>
                  /\ proc[c].error = ""
                  /\ Count(proc[c].trace, "rewrap") = 1
                  /\ proc[c].trace[Len(proc[c].trace)] = "rewrap"
                  /\ proc[c].read = <<proc[c].model_path, proc[c].rewrapper_path>>
                  /\ proc[c].rewrapper_path = ArtifactRoot(c) \o <<"rewrapper">>
                  /\ StartsWith(proc[c].model_path, ArtifactRoot(c))
                  /\ Len(proc[c].model_path) = Len(ArtifactRoot(c)) + 1
                  /\ CanDeserialize(store, proc[c].rewrapper_path)
                  /\ proc[c].result[1].obj = proc[c].loaded.obj
                  /\ proc[c].result[1].wrapped =
                        (\/ deserialize(store, proc[c].rewrapper_path).wrapped
                         \/ proc[c].loaded.wrapped)
            /\ proc[c].error = "DeserializationFailure" =>
                  /\ proc[c].result = None
                  /\ Count(proc[c].trace, "rewrap") = 0
            /\ Len(proc[c].read) < 2 => proc[c].result = None

\* A registered model has been returned, rewrapped from the rewrapper stored
\* next to it.
C27_Witness ==
    \E c \in callers :
        /\ Deserializing(c)
        /\ Done(c)
        /\ Took(c, "fetch_model")
        /\ proc[c].result # None
        /\ proc[c].result[1].wrapped
        /\ Count(proc[c].trace, "rewrap") = 1
        /\ Len(proc[c].read) = 2

\* The steps of a registration, in the order the routines take them.
RegisterOrder ==
    <<"unwrap", "serialize_rewrapper", "serialize_model", "resolve_image",
      "upload">>

\* The steps a call has taken, leaving out the construction of the
\* serializer and the closing rewrap.
StepsTaken(c) ==
    SelectSeq(proc[c].trace, LAMBDA e : e \notin {"new_serializer", "rewrap"})

\* C28: in every execution of register the steps taken are taken in the
\* order detach wrapper, serialize rewrapper, serialize model, resolve
\* container image, upload, rewrap, each at most once and the rewrap last;
\* the upload is issued only after both serializations have succeeded, so
\* a failed serialization leaves no registered model behind.
C28_RegisterOrder ==
    /\ \A c \in callers :
          proc[c].op = "register" =>
             /\ IsPrefix(StepsTaken(c), RegisterOrder)
             /\ Count(proc[c].trace, "rewrap") <= 1
             /\ Took(c, "rewrap") =>
                   /\ proc[c].trace[Len(proc[c].trace)] = "rewrap"
                   /\ Done(c)
             /\ Took(c, "upload") =>
                   /\ Len(proc[c].written) = 2
                   /\ \A i \in 1..2 : CanDeserialize(store, proc[c].written[i])
                   /\ proc[c].error \in {"", "UploadFailure"}
             /\ proc[c].error = "SerializationFailure" =>
                   /\ ~Took(c, "upload")
                   /\ proc[c].writes = 0
                   /\ proc[c].result = None
    /\ \A id \in DOMAIN registry :
          /\ Len(ledger[id].written) = 2
          /\ \A i \in 1..2 : CanDeserialize(store, ledger[id].written[i])

\* The model could not be serialized after the rewrapper had been: the call
\* has rewrapped and ended, and nothing is registered.
C28_Witness ==
    \E c \in callers :
        /\ Done(c)
        /\ proc[c].trace = <<"unwrap", "new_serializer", "serialize_rewrapper",
                             "serialize_model", "rewrap">>
        /\ proc[c].error = "SerializationFailure"
        /\ registry = <<>>

\* C29: a call to from_pretrained that passes the exactly-one-argument
\* check, whatever the value of the one argument, an empty string included,
\* takes one of the three retrieval paths and ends with a model handle or
\* with an error.
C29_AlwaysAPath ==
    \A c \in callers :
        (/\ proc[c].op = "from_pretrained"
         /\ Done(c)
         /\ PassedArgs(proc[c].args) = 1) =>
            /\ proc[c].trace # <<>>
            /\ \/ proc[c].result # None
               \/ proc[c].error # ""

====
